---- MODULE Spec2Model ----
(***************************************************************************)
(* Model of the LXC configuration editor of salt/modules/lxc.py:           *)
(*   read_conf / write_conf   (line model, parse and render)               *)
(*   _get_veths               (network interface extractor)                *)
(*   _network_conf            (network configuration synthesizer)          *)
(*   edit_conf                (merge/edit engine)                          *)
(*   cloud_init_interface     (nic_opts made of ip and additional_ips)     *)
(*   start, stop, freeze, unfreeze, destroy, attachable (lifecycle)        *)
(*   reconfigure, apply_network_profile (a profile put on a container)     *)
(*   _run, bootstrap, init    (commands run in a container)                *)
(*   _rand_cpu_str, update_lxc_conf, _LXCConfig                            *)
(* Texts are strings and are processed character by character, the way     *)
(* the Python code does it (split, strip, startswith, join).               *)
(***************************************************************************)
EXTENDS Integers, Sequences, FiniteSets, TLC

VARIABLES
    file,    \* content of the configuration file (one string)
    before,  \* content of the file when the current call started
    args,    \* arguments of the current call
    ret,     \* what the call computed / returned
    pc,      \* position of the caller: "call" before, "done" after
    containers,  \* runtime state of every container of the host
    context,     \* __context__, the cache the module keeps between its calls
    rootfs       \* the marker files in the root filesystem of every container

vars == <<file, before, args, ret, pc, containers, context, rootfs>>

(***************************************************************************)
(* Python values                                                           *)
(***************************************************************************)
\* Python's None, kept apart from every string the model uses
None == "<None>"

\* truth value of a Python string-or-None: None and '' are false
Truthy(v) == v # None /\ v # ""

(***************************************************************************)
(* str methods                                                             *)
(***************************************************************************)
\* characters str.strip() removes
IsSpace(c) == c \in {" ", "\n", "\t", "\r"}

RECURSIVE lstrip(_)
lstrip(s) ==
    IF Len(s) > 0 /\ IsSpace(SubSeq(s, 1, 1)) THEN lstrip(Tail(s)) ELSE s

RECURSIVE rstrip(_)
rstrip(s) ==
    IF Len(s) > 0 /\ IsSpace(SubSeq(s, Len(s), Len(s)))
    THEN rstrip(SubSeq(s, 1, Len(s) - 1))
    ELSE s

strip(s) == rstrip(lstrip(s))

startswith(s, p) == Len(s) >= Len(p) /\ SubSeq(s, 1, Len(p)) = p

\* index of the first occurrence of the character c in s at or after i, 0 if none
RECURSIVE find(_, _, _)
find(s, c, i) ==
    IF i > Len(s) THEN 0
    ELSE IF SubSeq(s, i, i) = c THEN i
    ELSE find(s, c, i + 1)

\* c in s
contains(s, c) == find(s, c, 1) # 0

\* s.split(c): every occurrence of the character c separates two parts; i is
\* the index of the first one, 0 if none
RECURSIVE split(_, _)
splitAt(s, c, i) ==
    IF i = 0 THEN <<s>>
    ELSE <<SubSeq(s, 1, i - 1)>> \o split(SubSeq(s, i + 1, Len(s)), c)

split(s, c) == splitAt(s, c, find(s, c, 1))

\* s.split(c, 1): at most one split, at index i
split1At(s, i) ==
    IF i = 0 THEN <<s>>
    ELSE <<SubSeq(s, 1, i - 1), SubSeq(s, i + 1, Len(s))>>

split1(s, c) == split1At(s, find(s, c, 1))

\* sep.join(parts)
RECURSIVE join(_, _)
join(sep, parts) ==
    IF Len(parts) = 0 THEN ""
    ELSE IF Len(parts) = 1 THEN parts[1]
    ELSE parts[1] \o sep \o join(sep, Tail(parts))

\* s.replace(old, ''): every occurrence of old is removed
RECURSIVE remove(_, _)
remove(s, old) ==
    IF Len(s) = 0 THEN ""
    ELSE IF startswith(s, old) THEN remove(SubSeq(s, Len(old) + 1, Len(s)), old)
    ELSE SubSeq(s, 1, 1) \o remove(Tail(s), old)

\* fp.readlines(): the lines of a text, each with its newline; a last line
\* without newline is returned as it is.  i is the index of the first newline
RECURSIVE readlines(_)
readlinesAt(text, i) ==
    IF Len(text) = 0 THEN <<>>
    ELSE IF i = 0 THEN <<text>>
    ELSE <<SubSeq(text, 1, i)>> \o readlines(SubSeq(text, i + 1, Len(text)))

readlines(text) == readlinesAt(text, find(text, "\n", 1))

\* code points of the characters the model's names are made of, in ASCII order
Ascii == " #.0123456789:=ABCDEFGHIJKLMNOPQRSTUVWXYZ_abcdefghijklmnopqrstuvwxyz"

ord(c) == find(Ascii, c, 1)

\* a < b for two strings: Python compares them character by character
RECURSIVE strless(_, _)
strless(a, b) ==
    IF Len(b) = 0 THEN FALSE
    ELSE IF Len(a) = 0 THEN TRUE
    ELSE IF SubSeq(a, 1, 1) = SubSeq(b, 1, 1) THEN strless(Tail(a), Tail(b))
    ELSE ord(SubSeq(a, 1, 1)) < ord(SubSeq(b, 1, 1))

\* list.sort() on a list of strings
RECURSIVE insertsorted(_, _)
insertsorted(x, s) ==
    IF Len(s) = 0 THEN <<x>>
    ELSE IF strless(x, s[1]) THEN <<x>> \o s
    ELSE <<s[1]>> \o insertsorted(x, Tail(s))

RECURSIVE sort(_)
sort(s) == IF Len(s) = 0 THEN <<>> ELSE insertsorted(s[1], sort(Tail(s)))

(***************************************************************************)
(* dict / OrderedDict: a sequence of <<key, value>> with distinct keys, in *)
(* insertion order                                                         *)
(***************************************************************************)
keys(d) == [i \in 1..Len(d) |-> d[i][1]]

has(d, k) == \E i \in 1..Len(d) : d[i][1] = k

\* d.get(k, default)
get(d, k, default) ==
    IF has(d, k) THEN d[CHOOSE i \in 1..Len(d) : d[i][1] = k][2] ELSE default

\* d[k] = v: an existing key keeps its place
set(d, k, v) ==
    IF has(d, k)
    THEN [i \in 1..Len(d) |-> IF d[i][1] = k THEN <<k, v>> ELSE d[i]]
    ELSE Append(d, <<k, v>>)

\* del d[k] / d.pop(k, None)
pop(d, k) == SelectSeq(d, LAMBDA e : e[1] # k)

\* salt.utils.dictupdate.update(dest, upd) on mappings whose values are strings
RECURSIVE update(_, _)
update(dest, upd) ==
    IF Len(upd) = 0 THEN dest
    ELSE update(set(dest, upd[1][1], upd[1][2]), Tail(upd))

(***************************************************************************)
(* Line model: the entries of a configuration document.  Python keeps a    *)
(* raw line as a str, a pair as {key: value} and a pair with an inline     *)
(* comment as {key: {'value': v, 'comment': c}}.                           *)
(***************************************************************************)
Raw(s) == [kind |-> "str", text |-> s, key |-> "", value |-> "", comment |-> None]

Pair(k, v) == [kind |-> "dict", text |-> "", key |-> k, value |-> v, comment |-> None]

CPair(k, v, c) == [kind |-> "dict", text |-> "", key |-> k, value |-> v, comment |-> c]

\* the pair with an inline comment: vcomps is value.strip().split('#')
CommentedPair(key, vcomps) ==
    CPair(key, strip(vcomps[2]), strip(join("#", Tail(vcomps))))

\* the entry of a line with key comps[0].strip() and the stripped value
ParseValue(key, value) ==
    IF startswith(strip(value), "#")
    THEN CommentedPair(key, split(strip(value), "#"))
    ELSE Pair(key, value)

\* comps is line.split('=')
ParseComps(comps) == ParseValue(strip(comps[1]), strip(join("=", Tail(comps))))

\* one iteration of the loop of read_conf: the entry a line is parsed to
ParseLine(line) ==
    IF ~contains(line, "=") THEN Raw(line) ELSE ParseComps(split(line, "="))

\* ret_commented of read_conf
ReadCommented(text) ==
    LET lines == readlines(text) IN [i \in 1..Len(lines) |-> ParseLine(lines[i])]

\* ret_simple of read_conf: only the pairs without inline comment, last value wins
RECURSIVE SimpleOf(_, _)
SimpleOf(entries, d) ==
    IF Len(entries) = 0 THEN d
    ELSE LET e == entries[1] IN
         SimpleOf(Tail(entries),
                  IF e.kind = "dict" /\ e.comment = None THEN set(d, e.key, e.value) ELSE d)

\* read_conf(conf_file, out_format): a dict for 'simple', a list otherwise
read_conf(text, out_format) ==
    IF out_format = "simple"
    THEN [type |-> "dict", dict |-> SimpleOf(ReadCommented(text), <<>>), list |-> <<>>]
    ELSE [type |-> "list", dict |-> <<>>, list |-> ReadCommented(text)]

\* the text write_conf renders for one entry of the list
RenderLine(line) ==
    IF line.kind = "str" THEN line.text
    ELSE IF line.comment = None THEN join(" = ", <<line.key, line.value>>) \o "\n"
    ELSE join(" # ", <<join(" = ", <<line.key, line.value>>), line.comment>>) \o "\n"

\* content of write_conf: built completely before the file is opened
RECURSIVE write_conf(_)
write_conf(conf) ==
    IF Len(conf) = 0 THEN "" ELSE RenderLine(conf[1]) \o write_conf(Tail(conf))

\* the value of a pair given as a dict that has no 'value' key
Missing == "<missing>"

\* {key: {'comment': comment}}
NoValuePair(k, c) == [kind |-> "dict", text |-> "", key |-> k, value |-> Missing, comment |-> c]

\* rendering the entry raises: line[key]['value'] of a dict without 'value'
RenderRaises(line) == line.kind = "dict" /\ line.value = Missing

\* what fopen(conf_file, 'w') and fp_.write(content) do to the file whose
\* content was old: 'w' truncates on opening; io is what the file system does
WriteFile(content, old, io) ==
    IF io = "open_fails" THEN [raised |-> TRUE, opened |-> FALSE, file |-> old]
    ELSE IF io = "write_fails" THEN [raised |-> TRUE, opened |-> TRUE, file |-> ""]
    ELSE [raised |-> FALSE, opened |-> TRUE, file |-> content]

\* a writer that opens the file before rendering the entries
write_conf_openfirst(is_list, conf, old, io) ==
    IF ~is_list THEN [raised |-> TRUE, opened |-> FALSE, file |-> old]
    ELSE IF io = "open_fails" THEN [raised |-> TRUE, opened |-> FALSE, file |-> old]
    ELSE IF \E i \in 1..Len(conf) : RenderRaises(conf[i])
    THEN [raised |-> TRUE, opened |-> TRUE, file |-> ""]
    ELSE WriteFile(write_conf(conf), old, io)

\* write_conf(conf_file, conf) on a file whose content is old: the outcome
\* and the content afterwards
write_conf_to(is_list, conf, old, io) ==
    IF ~is_list THEN [raised |-> TRUE, opened |-> FALSE, file |-> old]
    ELSE IF \E i \in 1..Len(conf) : RenderRaises(conf[i])
    THEN [raised |-> TRUE, opened |-> FALSE, file |-> old]
    ELSE WriteFile(write_conf(conf), old, io)

\* _LXCConfig.as_string raises on an item of data that is not a pair
AsStringRaises(data) == \E i \in 1..Len(data) : Len(data[i]) < 2

\* _LXCConfig.as_string()
as_string(data) ==
    join("\n", [i \in 1..Len(data) |->
                  data[i][1] \o (IF data[i][1] # "" THEN " = " ELSE "") \o data[i][2]]) \o "\n"

\* _LXCConfig.write() of an object with this path and data
LXCConfig_write(path, data, old, io) ==
    IF path = None THEN [raised |-> FALSE, opened |-> FALSE, file |-> old]
    ELSE IF AsStringRaises(data) THEN [raised |-> TRUE, opened |-> FALSE, file |-> old]
    ELSE WriteFile(as_string(data), old, io)

(***************************************************************************)
(* Network interface extractor                                             *)
(***************************************************************************)
\* net_data of _get_veths when it is a dict: list(net_data.items())
ItemsOf(d) == [i \in 1..Len(d) |-> Pair(d[i][1], d[i][2])]

\* the (key, value) tuple _get_veths makes of one item; skip for a comment or
\* blank line, err where the Python code raises (value is not a str, or the
\* str has no second character)
NormalizeStr(text, sitem) ==
    IF startswith(sitem, "#") \/ sitem = ""
    THEN [skip |-> TRUE, err |-> FALSE, k |-> "", v |-> ""]
    ELSE IF contains(text, "=")
    THEN [skip |-> FALSE, err |-> FALSE,
          k |-> strip(split1(text, "=")[1]), v |-> strip(split1(text, "=")[2])]
    ELSE IF Len(text) < 2
    THEN [skip |-> FALSE, err |-> TRUE, k |-> "", v |-> ""]
    ELSE [skip |-> FALSE, err |-> FALSE, k |-> SubSeq(text, 1, 1), v |-> SubSeq(text, 2, 2)]

Normalize(item) ==
    IF item.kind = "dict"
    THEN [skip |-> FALSE, err |-> item.comment # None, k |-> item.key, v |-> item.value]
    ELSE NormalizeStr(item.text, strip(item.text))

\* the iteration without the boundary at lxc.network.type: every tuple is
\* recorded in the block the loop began with
VethsStep_oneblock(n, st) ==
    IF n.skip THEN st
    ELSE IF n.err THEN [st EXCEPT !.err = TRUE]
    ELSE [err |-> FALSE,
          nics |-> IF n.k = "lxc.network.name" THEN set(st.nics, strip(n.v), st.cur)
                   ELSE st.nics,
          blocks |-> [st.blocks EXCEPT ![st.cur] = set(@, strip(n.k), strip(n.v))],
          cur |-> st.cur]

\* one iteration of the loop of _get_veths on the tuple n.  blocks are the
\* OrderedDict objects created so far, cur is current_nic, nics maps a name to
\* the block bound to it (by reference: what is recorded in a block later is
\* seen under its names)
VethsStep(n, st) ==
    LET fresh == n.k = "lxc.network.type"
        blocks1 == IF fresh THEN Append(st.blocks, <<>>) ELSE st.blocks
        cur1 == IF fresh THEN Len(st.blocks) + 1 ELSE st.cur
        nics1 == IF n.k = "lxc.network.name" THEN set(st.nics, strip(n.v), cur1) ELSE st.nics
    IN  IF n.skip THEN st
        ELSE IF n.err THEN [st EXCEPT !.err = TRUE]
        ELSE [err |-> FALSE, nics |-> nics1,
              blocks |-> [blocks1 EXCEPT ![cur1] = set(@, strip(n.k), strip(n.v))],
              cur |-> cur1]

\* the loop of _get_veths
RECURSIVE VethsLoop(_, _)
VethsLoop(net_data, st) ==
    IF Len(net_data) = 0 \/ st.err THEN st
    ELSE VethsLoop(Tail(net_data), VethsStep(Normalize(net_data[1]), st))

\* nics when the loop has ended: every name with the block bound to it
NicsOf(st) ==
    [err |-> st.err,
     nics |-> [i \in 1..Len(st.nics) |-> <<st.nics[i][1], st.blocks[st.nics[i][2]]>>]]

\* _get_veths(net_data): interface name -> settings, in order of first binding
_get_veths(net_data) ==
    NicsOf(VethsLoop(net_data, [err |-> FALSE, nics |-> <<>>, blocks |-> <<<<>>>>, cur |-> 1]))

(***************************************************************************)
(* Network configuration synthesizer                                       *)
(***************************************************************************)
\* the network_profile argument: None, a profile name or an inline mapping
NoProfile == [kind |-> "none", name |-> "", dict |-> <<>>]

Named(n) == [kind |-> "name", name |-> n, dict |-> <<>>]

Inline(d) == [kind |-> "dict", name |-> "", dict |-> d]

\* not nic
NicFalsy(nic) == nic.kind = "none" \/ (nic.kind = "dict" /\ nic.dict = <<>>)

\* get_network_profile(name): what config.get finds under lxc.network_profile,
\* {} when nothing is configured under that name
get_network_profile(store, name) == get(store, name, <<>>)

\* nicp after the nic_opts of every device were merged into it
RECURSIVE MergeNicOpts(_, _)
MergeNicOpts(nicp, nic_opts) ==
    IF Len(nic_opts) = 0 THEN nicp
    ELSE LET dev == nic_opts[1][1]
             ethx == get(nicp, dev, <<>>)
         IN  MergeNicOpts(set(nicp, dev, update(ethx, nic_opts[1][2])), Tail(nic_opts))

\* the value of a bundle whose old value is never looked at
Resolve_noold(test, value, old, default) ==
    IF test /\ Truthy(default) THEN default ELSE value

\* the value a bundle of infos ends with
Resolve(test, value, old, default) ==
    IF test
    THEN IF Truthy(old) THEN old
         ELSE IF Truthy(default) THEN default
         ELSE value
    ELSE value

\* the entries emitted for the bundles whose value is not empty
RECURSIVE EmitInfos(_)
EmitInfos(infos) ==
    IF Len(infos) = 0 THEN <<>>
    ELSE (IF Truthy(infos[1][2]) THEN <<Pair(infos[1][1], infos[1][2])>> ELSE <<>>)
         \o EmitInfos(Tail(infos))

\* keys of a profile entry that are not copied as they are
Reserved == {"type", "flags", "name", "gateway", "mac", "link", "ipv4", "ipv6"}

\* the entries for the remaining keys of args
RECURSIVE EmitExtras(_, _, _)
EmitExtras(devargs, opts, bridge) ==
    IF Len(devargs) = 0 THEN <<>>
    ELSE LET key == devargs[1][1]
             val0 == IF key = "link" /\ Truthy(bridge) THEN bridge ELSE devargs[1][2]
             val == get(opts, key, val0)
         IN  (IF key \in Reserved THEN <<>> ELSE <<Pair("lxc.network." \o key, val)>>)
             \o EmitExtras(Tail(devargs), opts, bridge)

\* the seven bundles of one device, resolved
InfosOf(dev, devargs, opts, old_if, mac_default) ==
    LET flags == get(opts, "flags", "")
        mac == get(opts, "mac", "")
        type_ == get(opts, "type", get(devargs, "type", ""))
        link == get(opts, "link", get(devargs, "link", ""))
        ipv4 == get(opts, "ipv4", None)
        ipv6 == get(opts, "ipv6", None)
    IN  << <<"lxc.network.type",
             Resolve(~Truthy(type_), type_, get(old_if, "lxc.network.type", None), "veth")>>,
           <<"lxc.network.name", Resolve(FALSE, dev, dev, dev)>>,
           <<"lxc.network.flags",
             Resolve(~Truthy(flags), flags, get(old_if, "lxc.network.flags", None), "up")>>,
           <<"lxc.network.link",
             Resolve(~Truthy(link), link, get(old_if, "lxc.network.link", None), "br0")>>,
           <<"lxc.network.hwaddr",
             Resolve(~Truthy(mac), mac, get(old_if, "lxc.network.hwaddr", None), mac_default)>>,
           <<"lxc.network.ipv4",
             Resolve(~Truthy(ipv4), ipv4, get(old_if, "lxc.network.ipv4", ""), None)>>,
           <<"lxc.network.ipv6",
             Resolve(~Truthy(ipv6), ipv6, get(old_if, "lxc.network.ipv6", ""), None)>> >>

\* the order in which the devices are worked on
IfsOf_unsorted(nicp, old) ==
    keys(nicp) \o SelectSeq(keys(old), LAMBDA a : ~has(nicp, a))

IfsOf(nicp, old) ==
    sort(keys(nicp) \o SelectSeq(keys(old), LAMBDA a : ~has(nicp, a)))

\* the end of one iteration of the loop over ifs: the gateway entry follows
\* the rows of the device unless one was emitted before
GatewayStep(rows, gateway, gateway_set) ==
    [ret |-> rows \o (IF gateway # None /\ ~gateway_set
                      THEN <<Pair("lxc.network.ipv4.gateway", gateway)>>
                      ELSE <<>>),
     gateway |-> gateway,
     gateway_set |-> gateway_set \/ gateway # None]

\* one iteration of the loop over ifs.  st holds ret, gateway and gateway_set
DevStep(dev, devargs, opts, old_if, bridge, mac_default, st) ==
    GatewayStep(st.ret \o EmitInfos(InfosOf(dev, devargs, opts, old_if, mac_default))
                       \o EmitExtras(devargs, opts, bridge),
                IF ~Truthy(st.gateway) THEN get(devargs, "gateway", None) ELSE st.gateway,
                st.gateway_set)

\* the loop over ifs; macs are the addresses salt.utils.gen_mac() returns, one
\* call for each device
RECURSIVE DevLoop(_, _, _, _, _, _, _)
DevLoop(ifs, nicp, nic_opts, old, bridge, macs, st) ==
    IF Len(ifs) = 0 THEN st
    ELSE DevLoop(Tail(ifs), nicp, nic_opts, old, bridge, Tail(macs),
                 DevStep(ifs[1], get(nicp, ifs[1], <<>>), get(nic_opts, ifs[1], <<>>),
                         get(old, ifs[1], <<>>), bridge, macs[1], st))

\* lines 633-639: the gateway is appended when the loop emitted none
AfterLoop(st) ==
    st.ret \o (IF st.gateway # None /\ ~st.gateway_set
               THEN <<Pair("lxc.network.ipv4.gateway", st.gateway)>>
               ELSE <<>>)

\* lines 553-639 for the merged profile nicp
LoopOver(nicp, nic_opts, old, gateway, bridge, macs) ==
    AfterLoop(DevLoop(IfsOf(nicp, old), nicp, nic_opts, old, bridge, macs,
                      [ret |-> <<>>, gateway |-> gateway, gateway_set |-> FALSE]))

\* ret when the profile is given by name
NamedConf(store, name, nic_opts, old, gateway, bridge, macs) ==
    LoopOver(MergeNicOpts(get_network_profile(store, name), nic_opts),
             nic_opts, old, gateway, bridge, macs)

\* the pass that restores type and hwaddr of one interface of new from old
Preserve(iface, ndata, old) ==
    LET nmac == get(ndata, "lxc.network.hwaddr", "")
        ntype0 == get(ndata, "lxc.network.type", "")
        odata == get(old, iface, <<>>)
        omac == get(odata, "lxc.network.hwaddr", "")
        otype == get(odata, "lxc.network.type", "")
        ntype1 == IF Truthy(otype) /\ ~Truthy(ntype0) THEN otype ELSE ntype0
        ntype == IF ~Truthy(ntype1) THEN "veth" ELSE ntype1
        typed == set(ndata, "lxc.network.type", ntype)
    IN  IF Truthy(omac) /\ ~Truthy(nmac) THEN set(typed, "lxc.network.hwaddr", omac) ELSE typed

\* one entry for every row of every interface of new
RECURSIVE Flatten(_)
Flatten(new) ==
    IF Len(new) = 0 THEN <<>>
    ELSE ItemsOf(new[1][2]) \o Flatten(Tail(new))

\* lines 641-667: the interfaces of ret, each with its type and MAC looked
\* after, as a list of one-entry dicts
Rebuilt(newv, old) ==
    [err |-> newv.err,
     entries |-> Flatten([i \in 1..Len(newv.nics) |->
                             <<newv.nics[i][1], Preserve(newv.nics[i][1], newv.nics[i][2], old)>>])]

\* _network_conf from "old = _get_veths(conf_tuples)" on; oldv is what that call gave
NetworkConfFrom(oldv, nic, nic_opts, gateway, bridge, store, macs) ==
    IF oldv.err THEN [err |-> TRUE, entries |-> <<>>]
    ELSE IF NicFalsy(nic) /\ nic_opts = <<>> /\ oldv.nics = <<>> THEN [err |-> FALSE, entries |-> <<>>]
    ELSE Rebuilt(_get_veths(IF nic.kind = "name"
                            THEN NamedConf(store, nic.name, nic_opts, oldv.nics, gateway, bridge, macs)
                            ELSE <<>>),
                 oldv.nics)

\* _network_conf(conf_tuples, network_profile=nic, nic_opts=, gateway=, bridge=);
\* err: the call ends with an exception
_network_conf(conf_tuples, nic, nic_opts, gateway, bridge, store, macs) ==
    NetworkConfFrom(_get_veths(conf_tuples), nic, nic_opts, gateway, bridge, store, macs)

(***************************************************************************)
(* Config merge/edit engine                                                *)
(***************************************************************************)
DEFAULT_NIC == "eth0"

IsNetKey(k) == startswith(k, "lxc.network.")

\* _config_list(conf_tuples, only_net=True, network_profile=, nic_opts=)
_config_list(conf_tuples, nic, nic_opts, store, macs) ==
    _network_conf(conf_tuples, nic, nic_opts, None, None, store, macs)

\* what "for line in conf" iterates over: the keys of a dict, the items of a list
LinesOf(conf) ==
    IF conf.type = "dict" THEN [i \in 1..Len(conf.dict) |-> Raw(conf.dict[i][1])]
    ELSE conf.list

\* conf as _get_veths takes it: the items of a dict, the list as it is
TuplesOf(conf) == IF conf.type = "dict" THEN ItemsOf(conf.dict) ELSE conf.list

\* net_params of one lxc_kws
NetParams(lxc_kws) ==
    SelectSeq(lxc_kws, LAMBDA e : ~startswith(e[1], "__") /\ IsNetKey(e[1]))

\* lxc_kws after its network parameters were popped
Popped(lxc_kws) ==
    SelectSeq(lxc_kws, LAMBDA e : ~(~startswith(e[1], "__") /\ IsNetKey(e[1])))

\* net_config: the non-empty net_params of lxc_config + [kwargs], in order
RECURSIVE NetConfig(_)
NetConfig(kws) ==
    IF Len(kws) = 0 THEN <<>>
    ELSE (IF NetParams(kws[1]) # <<>> THEN <<NetParams(kws[1])>> ELSE <<>>)
         \o NetConfig(Tail(kws))

\* dev_opts after the parameters of one params were written into it
RECURSIVE DevOpts(_, _)
DevOpts(dev_opts, params) ==
    IF Len(params) = 0 THEN dev_opts
    ELSE LET opt0 == remove(params[1][1], "lxc.network.")
             opt == IF opt0 = "hwaddr" THEN "mac" ELSE opt0
         IN  DevOpts(set(dev_opts, opt, params[1][2]), Tail(params))

\* nic_opts: device -> options, the device being lxc.network.name or eth0
RECURSIVE NicOpts(_, _)
NicOpts(nic_opts, net_config) ==
    IF Len(net_config) = 0 THEN nic_opts
    ELSE LET params == net_config[1]
             dev == get(params, "lxc.network.name", "eth0")
         IN  NicOpts(set(nic_opts, dev, DevOpts(get(nic_opts, dev, <<>>), params)),
                     Tail(net_config))

\* the inner loop over lxc_config for one key of the document: every kw that
\* holds the key gives one entry and loses the key
RECURSIVE Matches(_, _)
Matches(lxc_config, key) ==
    IF Len(lxc_config) = 0 THEN <<>>
    ELSE (IF has(lxc_config[1], key) THEN <<Pair(key, get(lxc_config[1], key, None))>> ELSE <<>>)
         \o Matches(Tail(lxc_config), key)

\* one iteration of the loop over conf; found is what the inner loop over
\* lxc_config gave for the key of the line, st holds data and lxc_config
WalkLine(line, found, net_changes, st) ==
    IF line.kind # "dict" THEN [st EXCEPT !.data = Append(@, line)]
    ELSE IF net_changes # <<>> /\ IsNetKey(line.key) THEN st
    ELSE IF found # <<>>
    THEN [data |-> st.data \o found,
          lxc_config |-> [i \in 1..Len(st.lxc_config) |-> pop(st.lxc_config[i], line.key)]]
    ELSE [st EXCEPT !.data = Append(@, line)]

\* the loop over the lines of conf without its "continue" for the network lines
RECURSIVE Walk_keepnet(_, _, _)
Walk_keepnet(lines, net_changes, st) ==
    IF Len(lines) = 0 THEN st
    ELSE Walk_keepnet(Tail(lines), net_changes,
                      WalkLine(lines[1], Matches(st.lxc_config, lines[1].key), <<>>, st))

\* the loop over the lines of conf
RECURSIVE Walk(_, _, _)
Walk(lines, net_changes, st) ==
    IF Len(lines) = 0 THEN st
    ELSE Walk(Tail(lines), net_changes,
              WalkLine(lines[1], Matches(st.lxc_config, lines[1].key), net_changes, st))

\* the last loop run from the last dict of lxc_config to the first
RECURSIVE Leftover_reversed(_)
Leftover_reversed(lxc_config) ==
    IF Len(lxc_config) = 0 THEN <<>>
    ELSE Leftover_reversed(Tail(lxc_config)) \o ItemsOf(lxc_config[1])

\* the last loop: what is left in lxc_config, one entry for every key
RECURSIVE Leftover(_)
Leftover(lxc_config) ==
    IF Len(lxc_config) = 0 THEN <<>>
    ELSE ItemsOf(lxc_config[1]) \o Leftover(Tail(lxc_config))

\* net_changes as dicts of one key
AsKws(entries) == [i \in 1..Len(entries) |-> <<<<entries[i].key, entries[i].value>>>>]

\* the end of edit_conf before "if read_only": st is what the loop over conf left
EditAppend(raised, nic_opts, net_changes, st) ==
    [raised |-> raised,
     nic_opts |-> nic_opts,
     net_changes |-> net_changes,
     nwalk |-> Len(st.data),
     data |-> st.data \o Leftover(st.lxc_config)]

\* edit_conf from "if net_changes" on; netv is what _config_list gave
EditWalk(conf, popped, nic_opts, netv) ==
    EditAppend(netv.err, nic_opts, netv.entries,
               Walk(LinesOf(conf), netv.entries,
                    [data |-> <<>>,
                     lxc_config |-> IF netv.entries # <<>>
                                    THEN popped \o AsKws(netv.entries) ELSE popped]))

\* edit_conf from "net_changes = []" on
EditNet(conf, popped, nic_opts, store, macs) ==
    EditWalk(conf, popped, nic_opts,
             IF nic_opts # <<>>
             THEN _config_list(TuplesOf(conf), Named(DEFAULT_NIC), nic_opts, store, macs)
             ELSE [err |-> FALSE, entries |-> <<>>])

\* edit_conf up to "if read_only": conf is what read_conf returned.
\* raised: the call ends with an exception; data: the document it built;
\* nwalk: len(data) when the loop over conf ended
EditData(conf, lxc_config, kwargs, store, macs) ==
    EditNet(conf, [i \in 1..Len(lxc_config) |-> Popped(lxc_config[i])],
            NicOpts(<<>>, NetConfig(Append(lxc_config, kwargs))), store, macs)

\* the file when the call ends: written unless read_only is set or the call raised
EditFile(r, text, read_only) ==
    [raised |-> r.raised,
     nic_opts |-> r.nic_opts,
     net_changes |-> r.net_changes,
     nwalk |-> r.nwalk,
     data |-> r.data,
     file |-> IF r.raised \/ read_only THEN text ELSE write_conf(r.data)]

\* edit_conf(conf_file, out_format, read_only, lxc_config, **kwargs) on a file
\* whose content is text
edit_conf(text, out_format, read_only, lxc_config, kwargs, store, macs) ==
    EditFile(EditData(read_conf(text, out_format), lxc_config, kwargs, store, macs),
             text, read_only)

\* what edit_conf returns: data under read_only, else the file read again
edit_conf_returns(r, out_format, read_only) ==
    IF read_only
    THEN [type |-> "list", dict |-> <<>>, list |-> r.data]
    ELSE read_conf(r.file, out_format)

(***************************************************************************)
(* Bounds and the inputs the calls are made with                           *)
(***************************************************************************)
\* most interfaces of a network profile
MaxProfIfs == 2

\* most interface blocks of the existing entries
MaxOldIfs == 2

\* interface names, deliberately not listed in alphabetical order
Devs == {"eth1", "eth0", "eth2"}

\* sequences without repetition over S, of length n at most
InjSeqs(S, n) ==
    {q \in UNION {[1..m -> S] : m \in 0..n} :
        \A i, j \in 1..Len(q) : i # j => q[i] # q[j]}

\* settings of one interface in a profile
ProfOpts ==
    { << <<"type", "macvlan">>, <<"link", "br1">>, <<"flags", "down">>,
         <<"mac", "00:16:3e:00:00:01">>, <<"ipv4", "10.0.0.5">>, <<"ipv6", "fd00::5">>,
         <<"gateway", "10.0.0.1">>, <<"mtu", "1500">> >>,
      << <<"gateway", "10.0.0.2">> >> }

\* network profiles: interface name -> settings
Profiles ==
    UNION { { [i \in 1..Len(ds) |-> <<ds[i], os[i]>>] : os \in [1..Len(ds) -> ProfOpts] } :
            ds \in InjSeqs(Devs, MaxProfIfs) }

\* the block of one interface in the existing entries: a full one and a bare one
OldBlock(dev, full) ==
    IF full
    THEN << Pair("lxc.network.type", "phys"), Pair("lxc.network.name", dev),
            Pair("lxc.network.flags", "down"), Pair("lxc.network.link", "br9"),
            Pair("lxc.network.hwaddr", "aa:bb:cc:dd:ee:0" \o SubSeq(dev, 4, 4)),
            Pair("lxc.network.ipv4", "192.168.0.9"), Pair("lxc.network.ipv6", "fd00::9") >>
    ELSE << Pair("lxc.network.type", "veth"), Pair("lxc.network.name", dev) >>

RECURSIVE Concat(_)
Concat(ss) == IF Len(ss) = 0 THEN <<>> ELSE ss[1] \o Concat(Tail(ss))

\* existing entries: the blocks of up to MaxOldIfs interfaces
OldConfs ==
    UNION { { Concat([i \in 1..Len(ds) |-> OldBlock(ds[i], fs[i])]) :
              fs \in [1..Len(ds) -> BOOLEAN] } :
            ds \in InjSeqs(Devs, MaxOldIfs) }

\* nic_opts: nothing, or overrides for one interface
NicOptsChoices ==
    {<<>>} \cup
    { << <<dev, << <<"type", "vlan">>, <<"link", "br2">>, <<"flags", "up">>,
                    <<"mac", "00:16:3e:00:00:02">>, <<"ipv4", "10.1.1.1">>,
                    <<"ipv6", "fd00::1">> >> >> >> : dev \in Devs }

\* the name profiles are stored under in the configuration
ProfName == "centos"

\* the calls of _network_conf
NetCalls ==
    { [fn |-> "_network_conf", conf_tuples |-> old, network_profile |-> nic.arg,
       nic_opts |-> nic_opts, gateway |-> gateway, bridge |-> None, store |-> nic.store] :
      old \in OldConfs,
      nic \in {[arg |-> NoProfile, store |-> <<>>]}
              \cup {[arg |-> Named(ProfName), store |-> <<<<ProfName, p>>>>] : p \in Profiles}
              \cup {[arg |-> Inline(p), store |-> <<>>] : p \in Profiles},
      nic_opts \in NicOptsChoices,
      gateway \in {None, "10.9.9.9"} }

\* addresses salt.utils.gen_mac() may return: any run of the pool
GenPool ==
    <<"52:54:00:00:00:01", "52:54:00:00:00:02", "52:54:00:00:00:03", "52:54:00:00:00:04",
      "52:54:00:00:00:05">>

GenRuns == {SubSeq(GenPool, 1, 4), SubSeq(GenPool, 2, 5)}

NoRet == [fn |-> "none"]

\* no container is looked at, nothing is cached
NoContainers == <<>>

NoContext == <<>>

NoRootfs == <<>>

(***************************************************************************)
(* The synthesizer called on its own                                       *)
(***************************************************************************)
InitNet ==
    /\ file = ""
    /\ before = ""
    /\ args \in NetCalls
    /\ ret = NoRet
    /\ pc = "call"
    /\ containers = NoContainers
    /\ context = NoContext
    /\ rootfs = NoRootfs

NetworkConf ==
    /\ pc = "call"
    /\ args.fn = "_network_conf"
    /\ \E macs \in GenRuns :
        ret' = _network_conf(args.conf_tuples, args.network_profile, args.nic_opts,
                             args.gateway, args.bridge, args.store, macs)
    /\ pc' = "done"
    /\ UNCHANGED <<file, before, args, containers, context, rootfs>>

NextNet == NetworkConf

SpecNet == InitNet /\ [][NextNet]_vars

(***************************************************************************)
(* Reading a list of network entries as interface blocks: a block starts   *)
(* at an lxc.network.type entry and belongs to the interface its           *)
(* lxc.network.name entry names                                            *)
(***************************************************************************)
Min(S) == CHOOSE x \in S : \A y \in S : x <= y

Max(S) == CHOOSE x \in S : \A y \in S : x >= y

Range(q) == {q[i] : i \in 1..Len(q)}

\* the names of the interface blocks, in the order of the entries
BlockNames(entries) ==
    LET named == SelectSeq(entries, LAMBDA e : e.kind = "dict" /\ e.key = "lxc.network.name")
    IN  [i \in 1..Len(named) |-> named[i].value]

\* the value of key in the block of the interface dev, None when the entries
\* have no such block or the block has no such key
FieldOf(entries, dev, key) ==
    LET at == {i \in 1..Len(entries) :
                  entries[i].key = "lxc.network.name" /\ entries[i].value = dev}
        i == Min(at)
        first == Max({1} \cup {j \in 1..i : entries[j].key = "lxc.network.type"})
        last == Min({Len(entries) + 1}
                    \cup {j \in (i + 1)..Len(entries) : entries[j].key = "lxc.network.type"}) - 1
        hits == {j \in first..last : entries[j].key = key}
    IN  IF at = {} \/ hits = {} THEN None ELSE entries[Min(hits)].value

NetDone == pc = "done" /\ args.fn = "_network_conf"

\* the profile the call resolves: the stored one for a name, the mapping itself
\* when it is given inline, nothing otherwise
GivenProfile ==
    IF args.network_profile.kind = "name"
    THEN get(args.store, args.network_profile.name, <<>>)
    ELSE args.network_profile.dict

(***************************************************************************)
(* C1  MAC preservation: an interface that has lxc.network.hwaddr in the   *)
(* existing entries, and for which neither nic_opts nor the profile gives  *)
(* a mac/hwaddr, has that same hwaddr in the entries _network_conf         *)
(* returns.                                                                *)
(***************************************************************************)
NoMacGiven(dev) ==
    /\ ~has(get(args.nic_opts, dev, <<>>), "mac")
    /\ ~has(get(args.nic_opts, dev, <<>>), "hwaddr")
    /\ ~has(get(GivenProfile, dev, <<>>), "mac")
    /\ ~has(get(GivenProfile, dev, <<>>), "hwaddr")

C1_MacPreserved ==
    NetDone =>
        \A dev \in Range(BlockNames(args.conf_tuples)) :
            LET omac == FieldOf(args.conf_tuples, dev, "lxc.network.hwaddr") IN
            (omac # None /\ NoMacGiven(dev)) =>
                (~ret.err /\ FieldOf(ret.entries, dev, "lxc.network.hwaddr") = omac)

(***************************************************************************)
(* C8  Field precedence, for a profile given by name: each of the seven    *)
(* canonical fields of every interface is emitted with the nic_opts value  *)
(* if given, else the profile's value if given, else the value of the      *)
(* existing entries, else the default (veth, the interface name, up, br0,  *)
(* a generated MAC, nothing for ipv4/ipv6), and only when that value is    *)
(* not empty.                                                              *)
(***************************************************************************)
Fields == {"type", "name", "flags", "link", "hwaddr", "ipv4", "ipv6"}

\* the key a field has in nic_opts and in a profile
OptName(f) == IF f = "hwaddr" THEN "mac" ELSE f

FirstGiven(a, b, c) == IF Truthy(a) THEN a ELSE IF Truthy(b) THEN b ELSE IF Truthy(c) THEN c ELSE None

\* the value given for a field by nic_opts, the profile or the existing entries
GivenFor(dev, f) ==
    FirstGiven(get(get(args.nic_opts, dev, <<>>), OptName(f), None),
               get(get(GivenProfile, dev, <<>>), OptName(f), None),
               FieldOf(args.conf_tuples, dev, "lxc.network." \o f))

\* interfaces the call is about
CallDevs ==
    Range(keys(GivenProfile)) \cup Range(keys(args.nic_opts))
        \cup Range(BlockNames(args.conf_tuples))

FieldAsClaimed(dev, f) ==
    LET out == FieldOf(ret.entries, dev, "lxc.network." \o f)
        given == GivenFor(dev, f)
    IN  IF f = "name" THEN out = dev
        ELSE IF given # None THEN out = given
        ELSE IF f = "type" THEN out = "veth"
        ELSE IF f = "flags" THEN out = "up"
        ELSE IF f = "link" THEN out = "br0"
        ELSE IF f = "hwaddr" THEN out \in Range(GenPool)
        ELSE out = None

C8_FieldPrecedence ==
    (NetDone /\ args.network_profile.kind = "name") =>
        \A dev \in CallDevs : \A f \in Fields : FieldAsClaimed(dev, f)

(***************************************************************************)
(* C9  Interface emission order.                                           *)
(***************************************************************************)
\* the interfaces of the resolved profile (the profile, then the devices only
\* nic_opts names), followed by those only the existing entries have
ProfileThenOld ==
    LET prof == keys(GivenProfile)
        resolved == prof \o SelectSeq(keys(args.nic_opts), LAMBDA a : a \notin Range(prof))
    IN  resolved \o SelectSeq(BlockNames(args.conf_tuples), LAMBDA a : a \notin Range(resolved))

\* C9 as claimed, for a profile given by name: the blocks follow the order of
\* the resolved profile, then the order of the existing entries
C9_ProfileOrder ==
    (NetDone /\ args.network_profile.kind = "name") =>
        BlockNames(ret.entries) = ProfileThenOld

IsAscending(q) == \A i \in 1..(Len(q) - 1) : strless(q[i], q[i + 1])

\* C9 amended: the interface blocks are listed in ascending order of the
\* interface names, whatever the order of the profile and of the existing
\* entries; for a profile given by name there is one block for every interface
\* of the resolved profile and of the existing entries
C9_SortedOrder ==
    NetDone =>
        /\ IsAscending(BlockNames(ret.entries))
        /\ args.network_profile.kind = "name" =>
               /\ Range(BlockNames(ret.entries)) = Range(ProfileThenOld)
               /\ Len(BlockNames(ret.entries)) = Len(ProfileThenOld)

\* a call by name with two interfaces that the profile and the existing entries
\* list in descending order has returned both blocks
C9_Witness ==
    /\ NetDone
    /\ args.network_profile.kind = "name"
    /\ Len(ProfileThenOld) >= 2
    /\ \E i \in 1..(Len(ProfileThenOld) - 1) : strless(ProfileThenOld[i + 1], ProfileThenOld[i])
    /\ Len(BlockNames(ret.entries)) = Len(ProfileThenOld)

(***************************************************************************)
(* C10  Single gateway, for a profile given by name: the returned entries  *)
(* hold at most one lxc.network.ipv4.gateway, and exactly one when a       *)
(* gateway is given: the gateway argument, or else the gateway of the      *)
(* first emitted interface whose profile data has one.                     *)
(***************************************************************************)
Gateways(entries) == SelectSeq(entries, LAMBDA e : e.key = "lxc.network.ipv4.gateway")

\* gateway of an interface in the profile data (profile overlaid by nic_opts)
GatewayOf(dev) ==
    get(get(args.nic_opts, dev, <<>>), "gateway", get(get(GivenProfile, dev, <<>>), "gateway", None))

GatewayGiven == args.gateway # None \/ \E dev \in CallDevs : GatewayOf(dev) # None

ExpectedGateway ==
    LET withgw == SelectSeq(BlockNames(ret.entries), LAMBDA dev : GatewayOf(dev) # None)
    IN  IF args.gateway # None THEN args.gateway
        ELSE IF withgw # <<>> THEN GatewayOf(withgw[1])
        ELSE None

C10_SingleGateway ==
    (NetDone /\ args.network_profile.kind = "name") =>
        /\ Len(Gateways(ret.entries)) <= 1
        /\ GatewayGiven =>
               /\ Len(Gateways(ret.entries)) = 1
               /\ Gateways(ret.entries)[1].value = ExpectedGateway

(***************************************************************************)
(* edit_conf called on a configuration file                                *)
(***************************************************************************)
\* most chunks of the existing file
MaxChunks == 2

\* most entries of lxc_config
MaxCfg == 2

\* what the existing file is made of, in the order of the file: comment lines
\* (one of them holding an '='), a blank line, two settings of the same key, a
\* value with an inline comment and the block of one interface
FileChunks ==
    << "# web container\n",
       "lxc.utsname = web1\n",
       "\n",
       "lxc.network.type = veth\nlxc.network.name = eth0\nlxc.network.hwaddr = aa:bb:cc:dd:ee:00\n",
       "#lxc.aa_profile=unconfined\n",
       "lxc.utsname = web2\n",
       "lxc.mount = #fstab\n" >>

RECURSIVE ConcatText(_)
ConcatText(ss) == IF Len(ss) = 0 THEN "" ELSE ss[1] \o ConcatText(Tail(ss))

\* the existing files: up to MaxChunks of the chunks
Files ==
    { ConcatText(SelectSeq(FileChunks, LAMBDA c : \E i \in sel : FileChunks[i] = c)) :
      sel \in {x \in SUBSET (1..Len(FileChunks)) : Cardinality(x) <= MaxChunks} }

\* the dicts lxc_config is made of
CfgEntries ==
    { << <<"lxc.utsname", "web9">> >>,
      << <<"lxc.start.auto", "1">> >>,
      << <<"lxc.network.ipv4", "10.0.0.7">> >>,
      << <<"lxc.network.name", "eth1">>, <<"lxc.network.link", "br1">> >> }

LxcConfigs == InjSeqs(CfgEntries, MaxCfg)

\* the keyword arguments
Kwargs ==
    { <<>>,
      << <<"lxc.utsname", "web7">> >>,
      << <<"lxc.rootfs", "/var/lib/lxc/web/rootfs">> >>,
      << <<"lxc.network.flags", "down">> >> }

\* what the configuration holds under lxc.network_profile:eth0
NicStore ==
    << <<DEFAULT_NIC,
         << <<"eth0", << <<"link", "br0">>, <<"type", "veth">>, <<"flags", "up">> >> >> >> >> >>

EditCalls ==
    { [fn |-> "edit_conf", out_format |-> fmt, read_only |-> ro,
       lxc_config |-> cfg, kwargs |-> kw, store |-> NicStore] :
      fmt \in {"simple", "commented"}, ro \in BOOLEAN, cfg \in LxcConfigs, kw \in Kwargs }

InitEdit ==
    /\ file \in Files
    /\ before = file
    /\ args \in EditCalls
    /\ ret = NoRet
    /\ pc = "call"
    /\ containers = NoContainers
    /\ context = NoContext
    /\ rootfs = NoRootfs

EditConf ==
    /\ pc = "call"
    /\ args.fn = "edit_conf"
    /\ \E macs \in GenRuns :
        \E r \in {edit_conf(file, args.out_format, args.read_only, args.lxc_config,
                             args.kwargs, args.store, macs)} :
            /\ ret' = [fn |-> "edit_conf", raised |-> r.raised, nic_opts |-> r.nic_opts,
                        net_changes |-> r.net_changes, nwalk |-> r.nwalk, data |-> r.data]
            /\ file' = r.file
    /\ pc' = "done"
    /\ UNCHANGED <<before, args, containers, context, rootfs>>

NextEdit == EditConf

SpecEdit == InitEdit /\ [][NextEdit]_vars

(***************************************************************************)
(* What the claims about edit_conf are stated with                         *)
(***************************************************************************)
EditDone == pc = "done" /\ args.fn = "edit_conf"

\* the existing document: the entries of the file as it was, line by line
Doc == ReadCommented(before)

\* the desired entries, in the order of lxc_config
Desired == Concat(args.lxc_config)

DesiredNonNet == SelectSeq(Desired, LAMBDA e : ~IsNetKey(e[1]))

\* some lxc.network.* key is among the desired entries or the keyword overrides
NetDesired == \E e \in Range(Desired) \cup Range(args.kwargs) : IsNetKey(e[1])

\* where the key occurs as a pair in a document
Occurrences(doc, k) == {i \in 1..Len(doc) : doc[i].kind = "dict" /\ doc[i].key = k}

IsNetPair(e) == e.kind = "dict" /\ IsNetKey(e.key)

(***************************************************************************)
(* C2  In-place update, for the calls that leave the network block alone:  *)
(* for every desired non-network key that occurs in the existing document, *)
(* the document edit_conf builds has the desired value at the position of  *)
(* the key's first occurrence, the desired entry is not appended after the *)
(* entries of the document, every later occurrence keeps its value, and    *)
(* every position holds an entry of the same kind and key as before.       *)
(***************************************************************************)
C2_InPlaceUpdate ==
    (EditDone /\ ~ret.raised /\ ~NetDesired) =>
        \A e \in Range(DesiredNonNet) :
            LET occ == Occurrences(Doc, e[1]) IN
            occ # {} =>
                /\ Len(ret.data) >= Len(Doc)
                /\ ret.data[Min(occ)] = Pair(e[1], e[2])
                /\ \A i \in (Len(Doc) + 1)..Len(ret.data) : ret.data[i] # Pair(e[1], e[2])
                /\ \A j \in occ : j # Min(occ) => ret.data[j] = Doc[j]
                /\ \A j \in 1..Len(Doc) :
                       ret.data[j].kind = Doc[j].kind /\ ret.data[j].key = Doc[j].key

(***************************************************************************)
(* C3  Append-on-miss: the desired non-network entries whose key does not  *)
(* occur in the existing document stand in the document edit_conf builds   *)
(* after everything the walk over the existing document gave, once each    *)
(* and in the order of the desired list; none of them stands earlier.      *)
(***************************************************************************)
Missed ==
    LET doc == Doc IN SelectSeq(DesiredNonNet, LAMBDA e : Occurrences(doc, e[1]) = {})

C3_AppendOnMiss ==
    (EditDone /\ ~ret.raised) =>
        LET missed == Missed
            keyset == {e[1] : e \in Range(missed)}
            isMissed(x) == x.kind = "dict" /\ x.key \in keyset
        IN  /\ ret.nwalk <= Len(ret.data)
            /\ SelectSeq(SubSeq(ret.data, ret.nwalk + 1, Len(ret.data)), isMissed)
                   = [i \in 1..Len(missed) |-> Pair(missed[i][1], missed[i][2])]
            /\ \A i \in 1..ret.nwalk : ~isMissed(ret.data[i])

\* a call on a file that is not empty has appended two desired entries
C3_Witness ==
    /\ EditDone
    /\ ~ret.raised
    /\ Len(Doc) >= 1
    /\ Len(Missed) >= 2
    /\ Len(ret.data) >= ret.nwalk + 2

IsCommentOrBlank(line) == strip(line) = "" \/ startswith(lstrip(line), "#")

CommentsOf(text) == SelectSeq(readlines(text), IsCommentOrBlank)

DesiredKeys == {e[1] : e \in Range(Desired) \cup Range(args.kwargs)}

\* the pairs of a file a call does not touch, as <<key, value>>
UntouchedPairs(text) ==
    LET lines == SelectSeq(readlines(text), LAMBDA l : ~IsCommentOrBlank(l))
        pairs == SelectSeq([i \in 1..Len(lines) |-> ParseLine(lines[i])],
                           LAMBDA x : /\ x.kind = "dict"
                                      /\ x.key \notin DesiredKeys
                                      /\ ~(NetDesired /\ IsNetKey(x.key)))
    IN  [i \in 1..Len(pairs) |-> <<pairs[i].key, pairs[i].value>>]

C5_CommentsKept ==
    (EditDone /\ ~ret.raised /\ ~args.read_only) =>
        /\ CommentsOf(file) = CommentsOf(before)
        /\ UntouchedPairs(file) = UntouchedPairs(before)

(***************************************************************************)
(* C6  A non-network key given as a keyword override is applied like an    *)
(* lxc_config entry: the first pair with that key in the document          *)
(* edit_conf builds has the new value, and stands after the entries of the *)
(* existing document when the key did not occur in it.                     *)
(***************************************************************************)
C6_KwargsApplied ==
    (EditDone /\ ~ret.raised) =>
        \A e \in Range(args.kwargs) :
            ~IsNetKey(e[1]) =>
                LET occ == Occurrences(ret.data, e[1]) IN
                /\ occ # {}
                /\ ret.data[Min(occ)].value = e[2]
                /\ Occurrences(Doc, e[1]) = {} => Min(occ) > ret.nwalk

(***************************************************************************)
(* read_conf (out_format 'commented') followed by write_conf               *)
(***************************************************************************)
\* most lines of the text
MaxLines == 2

\* newline-terminated lines: comments (one holding an '='), a blank line and
\* well-formed 'key = value' lines
TextLines ==
    { "# web container\n",
      "#lxc.aa_profile=unconfined\n",
      "\n",
      "lxc.utsname = web1\n",
      "lxc.arch = x86_64\n",
      "lxc.network.type = veth\n" }

Texts == {ConcatText(q) : q \in UNION {[1..m -> TextLines] : m \in 0..MaxLines}}

InitRT ==
    /\ file \in Texts
    /\ before = file
    /\ args = [fn |-> "round_trip", out_format |-> "commented"]
    /\ ret = NoRet
    /\ pc = "call"
    /\ containers = NoContainers
    /\ context = NoContext
    /\ rootfs = NoRootfs

ReadConf ==
    /\ pc = "call"
    /\ args.fn = "round_trip"
    /\ ret' = [fn |-> "read_conf", conf |-> read_conf(file, args.out_format).list]
    /\ pc' = "read"
    /\ UNCHANGED <<file, before, args, containers, context, rootfs>>

WriteConf ==
    /\ pc = "read"
    /\ file' = write_conf(ret.conf)
    /\ pc' = "done"
    /\ UNCHANGED <<before, args, ret, containers, context, rootfs>>

NextRT == ReadConf \/ WriteConf

SpecRT == InitRT /\ [][NextRT]_vars

(***************************************************************************)
(* C7  Round trip: after read_conf (out_format 'commented') and write_conf *)
(* of what it returned, the file holds exactly the original text.          *)
(***************************************************************************)
C7_RoundTrip == (pc = "done" /\ args.fn = "round_trip") => file = before

(***************************************************************************)
(* The synthesizer called again on what it returned                        *)
(***************************************************************************)
\* addresses salt.utils.gen_mac() returns during the second call: none of
\* those of the first call
GenAgain == <<"52:54:00:00:00:0a", "52:54:00:00:00:0b", "52:54:00:00:00:0c", "52:54:00:00:00:0d">>

\* the entries the container starts with when the call is repeated: none, or
\* the block of one interface
AgainOld == {o \in OldConfs : Len(BlockNames(o)) <= 1}

\* the calls that are repeated: every call with a profile given by name or
\* with none, and the calls with an inline profile and nothing else
InitAgain ==
    /\ file = ""
    /\ before = ""
    /\ \E old \in AgainOld, nic_opts \in NicOptsChoices, gateway \in {None, "10.9.9.9"} :
        \E nic \in {[arg |-> NoProfile, store |-> <<>>]}
                   \cup {[arg |-> Named(ProfName), store |-> <<<<ProfName, p>>>>] : p \in Profiles}
                   \cup {[arg |-> Inline(p), store |-> <<>>] :
                           p \in {q \in Profiles : nic_opts = <<>> /\ gateway = None}} :
            args = [fn |-> "_network_conf", conf_tuples |-> old, network_profile |-> nic.arg,
                    nic_opts |-> nic_opts, gateway |-> gateway, bridge |-> None,
                    store |-> nic.store]
    /\ ret = NoRet
    /\ pc = "call"
    /\ containers = NoContainers
    /\ context = NoContext
    /\ rootfs = NoRootfs

\* the second call: conf_tuples is the list the first call returned, the
\* other arguments are those of the first call
NetworkConfAgain ==
    /\ pc = "done"
    /\ args.fn = "_network_conf"
    /\ ~ret.err
    /\ \E r \in {_network_conf(ret.entries, args.network_profile, args.nic_opts,
                            args.gateway, args.bridge, args.store, GenAgain)} :
        ret' = [err |-> r.err, entries |-> r.entries, previous |-> ret.entries]
    /\ pc' = "again"
    /\ UNCHANGED <<file, before, args, containers, context, rootfs>>

NextAgain == NetworkConf \/ NetworkConfAgain

SpecAgain == InitAgain /\ [][NextAgain]_vars

(***************************************************************************)
(* C11  Idempotent re-synthesis: the synthesizer called on its own output  *)
(* as the existing entries, with the same profile, nic_opts and gateway,   *)
(* returns the same entries in the same order.                             *)
(***************************************************************************)
C11_Idempotent ==
    (pc = "again") => (~ret.err /\ ret.entries = ret.previous)

\* the second call has returned for a profile given by name, the first call
\* having generated a MAC and emitted a gateway
C11_Witness ==
    /\ pc = "again"
    /\ args.network_profile.kind = "name"
    /\ \E e \in Range(ret.previous) :
           e.key = "lxc.network.hwaddr" /\ e.value \in Range(GenPool)
    /\ \E e \in Range(ret.previous) : e.key = "lxc.network.ipv4.gateway"
    /\ Len(BlockNames(ret.entries)) >= 2

(***************************************************************************)
(* The interface extractor called on its own                               *)
(***************************************************************************)
\* most entries of net_data
MaxEntries == 5

\* the entries net_data is made of: pairs, a 'key = value' line whose value
\* has spaces around it, and a comment line
VethEntries ==
    { Pair("lxc.network.type", "veth"), Pair("lxc.network.name", "eth0"),
      Raw("lxc.network.name = eth1 \n"), Pair("lxc.network.hwaddr", "aa:bb:cc:dd:ee:00"),
      Pair("lxc.network.link", "br0"), Raw("# note\n") }

InitVeths ==
    /\ file = ""
    /\ before = ""
    /\ \E n \in 0..MaxEntries : \E net_data \in [1..n -> VethEntries] :
        args = [fn |-> "_get_veths", net_data |-> net_data]
    /\ ret = NoRet
    /\ pc = "call"
    /\ containers = NoContainers
    /\ context = NoContext
    /\ rootfs = NoRootfs

GetVeths ==
    /\ pc = "call"
    /\ args.fn = "_get_veths"
    /\ \E r \in {_get_veths(args.net_data)} :
        ret' = [fn |-> "_get_veths", err |-> r.err, nics |-> r.nics]
    /\ pc' = "veths"
    /\ UNCHANGED <<file, before, args, containers, context, rootfs>>

NextVeths == GetVeths

SpecVeths == InitVeths /\ [][NextVeths]_vars

\* the (key, value) tuples of net_data, trimmed, without comment and blank lines
TuplesIn(net_data) ==
    LET ns == [i \in 1..Len(net_data) |-> Normalize(net_data[i])]
        kept == SelectSeq(ns, LAMBDA n : ~n.skip)
    IN  [i \in 1..Len(kept) |-> <<strip(kept[i].k), strip(kept[i].v)>>]

\* where the block holding the i-th tuple starts: at the last lxc.network.type
\* tuple up to the i-th, at 0 when there is none
BlockStart(ts, i) ==
    Max({0} \cup {j \in 1..i : ts[j][1] = "lxc.network.type"})

\* the tuples of the block the name nm is registered for: the block current
\* at the last lxc.network.name tuple with that name
BlockOf(ts, nm) ==
    LET at == Max({i \in 1..Len(ts) : ts[i][1] = "lxc.network.name" /\ ts[i][2] = nm})
    IN  {j \in 1..Len(ts) : BlockStart(ts, j) = BlockStart(ts, at)}

\* C12: _get_veths returns one interface for every trimmed name of an
\* lxc.network.name entry, and the settings of an interface are the entries
\* of its block, the block running from one lxc.network.type entry to the
\* next (a key set twice in a block keeps its last value)
C12_Blocks ==
    (pc = "veths") =>
        LET ts == TuplesIn(args.net_data)
            names == {ts[i][2] : i \in {j \in 1..Len(ts) : ts[j][1] = "lxc.network.name"}}
        IN  /\ ~ret.err
            /\ {ret.nics[i][1] : i \in 1..Len(ret.nics)} = names
            /\ \A i, j \in 1..Len(ret.nics) : ret.nics[i][1] = ret.nics[j][1] => i = j
            /\ \A i \in 1..Len(ret.nics) :
                LET block == BlockOf(ts, ret.nics[i][1])
                    nic == ret.nics[i][2]
                IN  /\ {nic[k][1] : k \in 1..Len(nic)} = {ts[j][1] : j \in block}
                    /\ \A k \in 1..Len(nic) :
                           nic[k][2] = ts[Max({j \in block : ts[j][1] = nic[k][1]})][2]

\* type/name/hwaddr, type/name: two interfaces, eth0 with hwaddr and eth1 without
C12_Witness ==
    /\ pc = "veths"
    /\ args.net_data = << Pair("lxc.network.type", "veth"), Pair("lxc.network.name", "eth0"),
                          Pair("lxc.network.hwaddr", "aa:bb:cc:dd:ee:00"),
                          Pair("lxc.network.type", "veth"),
                          Raw("lxc.network.name = eth1 \n") >>
    /\ ~ret.err
    /\ keys(ret.nics) = <<"eth0", "eth1">>
    /\ get(ret.nics, "eth0", <<>>) = << <<"lxc.network.type", "veth">>,
                                        <<"lxc.network.name", "eth0">>,
                                        <<"lxc.network.hwaddr", "aa:bb:cc:dd:ee:00">> >>
    /\ get(ret.nics, "eth1", <<>>) = << <<"lxc.network.type", "veth">>,
                                        <<"lxc.network.name", "eth1">> >>

\* C13: nothing that precedes the first lxc.network.type entry is in the
\* returned mapping: every interface is named by, and every setting of an
\* interface is, an entry at or after the first lxc.network.type entry
C13_PreTypeDropped ==
    (pc = "veths" /\ ~ret.err) =>
        LET ts == TuplesIn(args.net_data)
            types == {j \in 1..Len(ts) : ts[j][1] = "lxc.network.type"}
            later == IF types = {} THEN {} ELSE {j \in 1..Len(ts) : j >= Min(types)}
        IN  \A i \in 1..Len(ret.nics) :
                /\ \E j \in later : ts[j] = <<"lxc.network.name", ret.nics[i][1]>>
                /\ \A k \in 1..Len(ret.nics[i][2]) : \E j \in later : ts[j] = ret.nics[i][2][k]

(***************************************************************************)
(* Writing a configuration file: write_conf and _LXCConfig.write           *)
(***************************************************************************)
\* most entries of a document, most items of the data of an _LXCConfig
MaxDoc == 3

\* entries of the documents handed to write_conf; the last cannot be rendered
DocEntries ==
    { Raw("# web container\n"), Pair("lxc.utsname", "web1"),
      CPair("lxc.mount", "fstab", "keep"), NoValuePair("lxc.rootfs", "no value") }

\* items of _LXCConfig.data: a setting, a comment line, and what is not a
\* pair (data is a plain attribute callers can append to)
DataItems == { <<"lxc.utsname", "web1">>, <<"", "# web container">>, <<"lxc.arch">> }

\* what the file system does when the file is opened and written
IOs == {"ok", "open_fails", "write_fails"}

\* content of the destination before the call
OldFiles == {"", "lxc.utsname = old\n"}

\* the calls of write_conf: with a list, and with what is not one (a dict)
WriteConfCalls ==
    { [fn |-> "write_conf", is_list |-> TRUE, conf |-> c] :
        c \in UNION {[1..m -> DocEntries] : m \in 0..MaxDoc} }
    \cup
    { [fn |-> "write_conf", is_list |-> FALSE, conf |-> c] :
        c \in {<<>>, <<Pair("lxc.utsname", "web1")>>} }

\* the _LXCConfig objects write() is called on
ConfigObjects ==
    { [fn |-> "_LXCConfig.write", path |-> path, data |-> d] :
        d \in UNION {[1..m -> DataItems] : m \in 0..MaxDoc},
        path \in {None, "/var/lib/lxc/web/config"} }

InitWrite ==
    /\ file \in OldFiles
    /\ before = file
    /\ \/ args \in WriteConfCalls
       \/ args \in ConfigObjects
    /\ ret = NoRet
    /\ pc = "call"
    /\ containers = NoContainers
    /\ context = NoContext
    /\ rootfs = NoRootfs

WriteConfTo ==
    /\ pc = "call"
    /\ args.fn = "write_conf"
    /\ \E io \in IOs : \E r \in {write_conf_to(args.is_list, args.conf, file, io)} :
        /\ ret' = [fn |-> "write_conf", raised |-> r.raised, opened |-> r.opened]
        /\ file' = r.file
    /\ pc' = "written"
    /\ UNCHANGED <<before, args, containers, context, rootfs>>

LXCConfigWrite ==
    /\ pc = "call"
    /\ args.fn = "_LXCConfig.write"
    /\ \E io \in IOs : \E r \in {LXCConfig_write(args.path, args.data, file, io)} :
        /\ ret' = [fn |-> "_LXCConfig.write", raised |-> r.raised, opened |-> r.opened]
        /\ file' = r.file
    /\ pc' = "written"
    /\ UNCHANGED <<before, args, containers, context, rootfs>>

NextWrite == WriteConfTo \/ LXCConfigWrite

SpecWrite == InitWrite /\ [][NextWrite]_vars

\* the text of the call cannot be built: the document is not a list or one of
\* its entries cannot be rendered
RenderingFails ==
    IF args.fn = "write_conf"
    THEN ~args.is_list \/ \E i \in 1..Len(args.conf) : RenderRaises(args.conf[i])
    ELSE args.path # None /\ AsStringRaises(args.data)

\* C14: when the text cannot be built, write_conf and _LXCConfig.write raise
\* without opening the destination, and the file holds what it held before
C14_SafeWrite ==
    (pc = "written" /\ RenderingFails) =>
        /\ ret.raised
        /\ ~ret.opened
        /\ file = before

\* both writers have met an entry they cannot render, after entries they can,
\* with a destination that had content
C14_Witness ==
    /\ pc = "written"
    /\ RenderingFails
    /\ before # ""
    /\ \/ /\ args.fn = "write_conf"
          /\ args.is_list
          /\ Len(args.conf) >= 2
          /\ ~RenderRaises(args.conf[1])
       \/ /\ args.fn = "_LXCConfig.write"
          /\ Len(args.data) >= 2
          /\ Len(args.data[1]) = 2

(***************************************************************************)
(* edit_conf on a file that may fail to be read                            *)
(***************************************************************************)
\* what read_conf gives edit_conf: conf = [] when read_conf raised
ConfRead(text, read_fails, out_format) ==
    IF read_fails THEN [type |-> "list", dict |-> <<>>, list |-> <<>>]
    ELSE read_conf(text, out_format)

\* edit_conf on a file whose content is text and whose reading may raise
edit_conf_io(text, read_fails, out_format, read_only, lxc_config, kwargs, store, macs) ==
    EditFile(EditData(ConfRead(text, read_fails, out_format), lxc_config, kwargs, store, macs),
             text, read_only)

InitEditIO ==
    /\ file \in Files
    /\ before = file
    /\ \E c \in EditCalls, read_fails \in BOOLEAN :
        args = [fn |-> "edit_conf", out_format |-> c.out_format, read_only |-> c.read_only,
                lxc_config |-> c.lxc_config, kwargs |-> c.kwargs, store |-> c.store,
                read_fails |-> read_fails]
    /\ ret = NoRet
    /\ pc = "call"
    /\ containers = NoContainers
    /\ context = NoContext
    /\ rootfs = NoRootfs

EditConfIO ==
    /\ pc = "call"
    /\ args.fn = "edit_conf"
    /\ \E macs \in GenRuns :
        \E r \in {edit_conf_io(file, args.read_fails, args.out_format, args.read_only,
                                args.lxc_config, args.kwargs, args.store, macs)} :
            /\ ret' = [fn |-> "edit_conf", raised |-> r.raised, nic_opts |-> r.nic_opts,
                        net_changes |-> r.net_changes, nwalk |-> r.nwalk, data |-> r.data]
            /\ file' = r.file
    /\ pc' = "done"
    /\ UNCHANGED <<before, args, containers, context, rootfs>>

NextEditIO == EditConfIO

SpecEditIO == InitEditIO /\ [][NextEditIO]_vars

\* C15: when reading the file fails, edit_conf ends with an error and the
\* file holds what it held before
C15_ReadFailurePropagates ==
    (pc = "done" /\ args.fn = "edit_conf" /\ args.read_fails) =>
        /\ ret.raised
        /\ file = before

(***************************************************************************)
(* C16  A profile given inline counts as the same profile given by name:   *)
(* _network_conf returns for an inline mapping the entries it returns for  *)
(* a profile name resolving to that mapping, with the same existing        *)
(* entries, nic_opts and gateway, and so one block for each interface of   *)
(* the mapping.                                                            *)
(***************************************************************************)
C16_InlineAsNamed ==
    (NetDone /\ args.network_profile.kind = "dict") =>
        /\ \E macs \in GenRuns :
            ret = _network_conf(args.conf_tuples, Named(ProfName), args.nic_opts,
                                args.gateway, args.bridge,
                                <<<<ProfName, args.network_profile.dict>>>>, macs)
        /\ \A dev \in Range(keys(args.network_profile.dict)) :
            dev \in Range(BlockNames(ret.entries))

(***************************************************************************)
(* read_conf on lines whose value carries an inline comment                *)
(***************************************************************************)
\* most lines of the file read
MaxRead == 3

\* lines with one, two and three '#' markers in the value, a plain pair and a
\* comment line
ReadLines ==
    { "x = #foo#bar\n", "lxc.mount = #fstab\n", "lxc.rootfs = # srv # keep # it\n",
      "lxc.utsname = web1\n", "# web container\n" }

InitRead ==
    /\ \E m \in 0..MaxRead : \E q \in [1..m -> ReadLines] : file = ConcatText(q)
    /\ before = file
    /\ \E fmt \in {"commented", "simple"} : args = [fn |-> "read_conf", out_format |-> fmt]
    /\ ret = NoRet
    /\ pc = "call"
    /\ containers = NoContainers
    /\ context = NoContext
    /\ rootfs = NoRootfs

ReadConfFile ==
    /\ pc = "call"
    /\ args.fn = "read_conf"
    /\ \E r \in {read_conf(file, args.out_format)} :
        ret' = [fn |-> "read_conf", type |-> r.type, dict |-> r.dict, list |-> r.list]
    /\ pc' = "parsed"
    /\ UNCHANGED <<file, before, args, containers, context, rootfs>>

NextRead == ReadConfFile

SpecRead == InitRead /\ [][NextRead]_vars

\* the trimmed value of a 'key = value' line: what follows the first '='
ValueOf(line) == strip(split1(line, "=")[2])

\* C17: read_conf (out_format 'commented') gives for a line whose trimmed
\* value begins with '#' and holds a second '#' a pair whose value is the
\* trimmed text after that second '#', with the comment stored in the pair
C17_ValueAfterSecondMarker ==
    (pc = "parsed" /\ args.out_format = "commented") =>
        LET lines == readlines(file) IN
        \A i \in 1..Len(lines) :
            (/\ contains(lines[i], "=")
             /\ startswith(ValueOf(lines[i]), "#")
             /\ find(ValueOf(lines[i]), "#", 2) # 0) =>
                LET v == ValueOf(lines[i])
                    second == find(v, "#", 2)
                IN  /\ ret.list[i].kind = "dict"
                    /\ ret.list[i].comment # None
                    /\ ret.list[i].value = strip(SubSeq(v, second + 1, Len(v)))

(***************************************************************************)
(* cloud_init_interface: the nic_opts it makes of ip and additional_ips    *)
(***************************************************************************)
Digits == "0123456789"

\* "eth{0}".format(ix + 1), ix counted from 0
EthName(ix) == "eth" \o SubSeq(Digits, ix + 2, ix + 2)

\* eth0 when ip is given
Eth0(ip, mac, netmask, bridge) ==
    << <<"ipv4", IF Truthy(netmask) THEN ip \o "/" \o netmask ELSE ip>> >>
    \o (IF mac # None THEN << <<"mac", mac>> >> ELSE <<>>)
    \o (IF Truthy(bridge) THEN << <<"link", bridge>> >> ELSE <<>>)

\* ethx of one entry of additional_ips before the test for its mac
Ethx(iopts) ==
    (IF Truthy(get(iopts, "gateway", None))
     THEN << <<"gateway", get(iopts, "gateway", None)>> >> ELSE <<>>)
    \o << <<"link", get(iopts, "link", "br0")>>,
          <<"ipv4", IF Truthy(get(iopts, "netmask", ""))
                    THEN get(iopts, "ip", None) \o "/" \o get(iopts, "netmask", "")
                    ELSE get(iopts, "ip", None)>> >>
    \o (IF has(iopts, "mac") THEN << <<"mac", get(iopts, "mac", None)>> >>
        ELSE IF has(iopts, "hwaddr") THEN << <<"mac", get(iopts, "hwaddr", None)>> >>
        ELSE <<>>)

\* one iteration of the loop over additional_ips.  is_none: nic_opts is None
IpStep(ix, iopts, ethx, st) ==
    IF st.is_none
    THEN [st EXCEPT !.raised = TRUE,
                    !.error = "'NoneType' object has no attribute 'setdefault'"]
    ELSE IF ~has(ethx, "mac")
    THEN [st EXCEPT !.raised = TRUE, !.error = "No mac for " \o EthName(ix)]
    ELSE [st EXCEPT !.nic_opts = set(@, EthName(ix), ethx),
                    !.gateway = IF Truthy(get(iopts, "gateway", None)) THEN None ELSE @]

RECURSIVE IpsLoop(_, _, _)
IpsLoop(ips, ix, st) ==
    IF ix >= Len(ips) \/ st.raised THEN st
    ELSE IpsLoop(ips, ix + 1, IpStep(ix, ips[ix + 1], Ethx(ips[ix + 1]), st))

\* cloud_init_interface(name, vm_) as far as nic_opts and gateway go
cloud_init_interface(ip, mac, netmask, bridge, additional_ips) ==
    IpsLoop(additional_ips, 0,
            [raised |-> FALSE, error |-> "", is_none |-> ip = None,
             nic_opts |-> IF ip = None THEN <<>>
                          ELSE << <<"eth0", Eth0(ip, mac, netmask, bridge)>> >>,
             gateway |-> "auto"])

\* most entries of additional_ips
MaxIps == 3

\* entries of additional_ips: with mac, with hwaddr, and two with neither
IpEntries ==
    { << <<"ip", "10.0.1.2">>, <<"mac", "00:16:3e:00:00:0a">> >>,
      << <<"ip", "10.0.2.2">>, <<"hwaddr", "00:16:3e:00:00:0b">>, <<"netmask", "16">>,
         <<"gateway", "10.0.2.1">> >>,
      << <<"ip", "10.0.3.2">> >>,
      << <<"ip", "10.0.4.2">>, <<"link", "br1">>, <<"netmask", "24">> >> }

InitCloud ==
    /\ file = ""
    /\ before = ""
    /\ \E ip \in {None, "10.0.0.5"}, mac \in {None, "00:16:3e:00:00:01"},
          netmask \in {"24", ""}, n \in 0..MaxIps :
        \E ips \in [1..n -> IpEntries] :
            args = [fn |-> "cloud_init_interface", ip |-> ip, mac |-> mac,
                    netmask |-> netmask, bridge |-> "lxcbr0", additional_ips |-> ips]
    /\ ret = NoRet
    /\ pc = "call"
    /\ containers = NoContainers
    /\ context = NoContext
    /\ rootfs = NoRootfs

CloudInitInterface ==
    /\ pc = "call"
    /\ args.fn = "cloud_init_interface"
    /\ \E r \in {cloud_init_interface(args.ip, args.mac, args.netmask, args.bridge,
                                      args.additional_ips)} :
        ret' = [fn |-> "cloud_init_interface", raised |-> r.raised, error |-> r.error,
                is_none |-> r.is_none, nic_opts |-> r.nic_opts, gateway |-> r.gateway]
    /\ pc' = "cloud"
    /\ UNCHANGED <<file, before, args, containers, context, rootfs>>

NextCloud == CloudInitInterface

SpecCloud == InitCloud /\ [][NextCloud]_vars

\* the entries of additional_ips with neither 'mac' nor 'hwaddr', counted from 0
Macless == {ix \in 0..(Len(args.additional_ips) - 1) :
                /\ ~has(args.additional_ips[ix + 1], "mac")
                /\ ~has(args.additional_ips[ix + 1], "hwaddr")}

\* C18: with an entry of additional_ips that has neither 'mac' nor 'hwaddr',
\* cloud_init_interface raises an error that names the interface of the first
\* such entry, with and without a primary ip
C18_NoMacFails ==
    (pc = "cloud" /\ Macless # {}) =>
        /\ ret.raised
        /\ ret.error = "No mac for " \o EthName(Min(Macless))

(***************************************************************************)
(* Container lifecycle: start, stop, freeze, unfreeze, destroy, attachable *)
(* and the cache they keep in __context__.  A call is computed on a record *)
(* m: rt the runtime state of the containers, ctx the content of           *)
(* __context__, cmds the state-changing lxc commands the call has issued,  *)
(* raised/error the exception that ended it, ok and val what the function  *)
(* called last returned (a bool, a str or None).                           *)
(***************************************************************************)
\* the containers of the host
Names == {"a", "b"}

\* a key that is not in __context__
Unset == "<unset>"

\* __context__ without any lxc.* key: lxc.state.<name>, lxc.attachable, lxc.ls
EmptyContext ==
    [state |-> [n \in Names |-> Unset], attachable |-> Unset,
     ls |-> [cached |-> FALSE, names |-> {}]]

\* _clear_context()
ClearContext(m) == [m EXCEPT !.ctx = EmptyContext]

Raise(m, error) == [m EXCEPT !.raised = TRUE, !.error = error]

\* ls_(cache): lxc-ls lists the containers that exist
ls_(cache, m) ==
    IF cache /\ m.ctx.ls.cached THEN m
    ELSE [m EXCEPT !.ctx.ls = [cached |-> TRUE,
                               names |-> {n \in Names : m.rt[n] # "absent"}]]

\* exists(name): m1 is m after ls_(), m2 after ls_(cache=False)
ExistsAgain(name, m2) == [m2 EXCEPT !.ok = name \in m2.ctx.ls.names]

ExistsFrom(name, m1) ==
    IF name \in m1.ctx.ls.names THEN [m1 EXCEPT !.ok = TRUE]
    ELSE ExistsAgain(name, ls_(FALSE, m1))

exists(name, m) == ExistsFrom(name, ls_(TRUE, m))

\* _ensure_exists(name): m1 is m after exists(name)
EnsureFrom(name, m1) == IF m1.ok THEN m1 ELSE Raise(m1, "does not exist")

_ensure_exists(name, m) == EnsureFrom(name, exists(name, m))

\* state(name) when lxc.state.<name> is not cached: m1 is m after exists(name);
\* lxc-info reports the runtime state
StateFrom(name, m1) ==
    IF ~m1.ok THEN [m1 EXCEPT !.ctx.state[name] = None, !.val = None]
    ELSE [m1 EXCEPT !.ctx.state[name] = m1.rt[name], !.val = m1.rt[name]]

state(name, m) ==
    IF m.ctx.state[name] # Unset THEN [m EXCEPT !.val = m.ctx.state[name]]
    ELSE StateFrom(name, exists(name, m))

\* the runtime states in which lxc carries out a command
CanRun(cmd, st) ==
    CASE cmd = "lxc-start -d" -> st = "stopped"
      [] cmd = "lxc-freeze"   -> st = "running"
      [] cmd = "lxc-unfreeze" -> st = "frozen"
      [] cmd = "lxc-destroy"  -> st = "stopped"
      [] OTHER                -> st \in {"running", "frozen"}

\* the runtime state a command leaves the container in
Effect(cmd) ==
    CASE cmd = "lxc-start -d" -> "running"
      [] cmd = "lxc-freeze"   -> "frozen"
      [] cmd = "lxc-unfreeze" -> "running"
      [] cmd = "lxc-destroy"  -> "absent"
      [] OTHER                -> "stopped"

\* _change_state: 'lxc-stop -k -n name', run before lxc-destroy
Kill(name, m) ==
    [m EXCEPT !.cmds = Append(@, "lxc-stop -k -n " \o name),
              !.rt[name] = IF @ \in {"running", "frozen"} THEN "stopped" ELSE @]

\* _change_state from "post = state(name)" on: m4 is m after state(name)
ChangeResult(expected, m4) == [m4 EXCEPT !.ok = (m4.val = expected)]

\* what an lxc command does when the container is in a state it can be
\* carried out in: "no" it takes effect and stderr stays empty, "stderr" it
\* writes to stderr and has no effect, "warns" it takes effect and writes to
\* stderr
Stderr == {"no", "stderr", "warns"}

\* _change_state from "cmd = '{0} -n {1}'" on
ChangeRun(cmd, name, expected, fails, m2) ==
    IF fails = "stderr" \/ ~CanRun(cmd, m2.rt[name])
    THEN Raise([m2 EXCEPT !.cmds = Append(@, cmd \o " -n " \o name)], "Error changing state")
    ELSE IF fails = "warns"
    THEN Raise([m2 EXCEPT !.cmds = Append(@, cmd \o " -n " \o name),
                          !.rt[name] = Effect(cmd)], "Error changing state")
    ELSE ChangeResult(expected,
            state(name, ClearContext([m2 EXCEPT !.cmds = Append(@, cmd \o " -n " \o name),
                                                !.rt[name] = Effect(cmd)])))

\* _change_state from "if pre == expected" on: m1 is m after state(name)
ChangeFrom(cmd, name, expected, fails, m1) ==
    IF m1.val = expected THEN [m1 EXCEPT !.ok = TRUE]
    ELSE ChangeRun(cmd, name, expected, fails,
                   IF cmd = "lxc-destroy" THEN Kill(name, m1) ELSE m1)

_change_state(cmd, name, expected, fails, m) ==
    ChangeFrom(cmd, name, expected, fails, state(name, m))

\* start(name): m2 is m after _ensure_exists(name) and state(name)
StartGuard(name, fails, m2) ==
    IF m2.val = "frozen" THEN Raise(m2, "is frozen, use lxc.unfreeze")
    ELSE _change_state("lxc-start -d", name, "running", fails, m2)

StartFrom(name, fails, m1) ==
    IF m1.raised THEN m1 ELSE StartGuard(name, fails, state(name, m1))

start(name, fails, m) == StartFrom(name, fails, _ensure_exists(name, m))

\* unfreeze(name)
UnfreezeGuard(name, fails, m2) ==
    IF m2.val = "stopped" THEN Raise(m2, "is stopped")
    ELSE _change_state("lxc-unfreeze", name, "running", fails, m2)

UnfreezeFrom(name, fails, m1) ==
    IF m1.raised THEN m1 ELSE UnfreezeGuard(name, fails, state(name, m1))

unfreeze(name, fails, m) == UnfreezeFrom(name, fails, _ensure_exists(name, m))

\* stop(name, kill): m3 is m after the unfreeze of a frozen container
StopRun(name, kill, fails, m3) ==
    IF m3.raised THEN m3
    ELSE _change_state(IF kill THEN "lxc-stop -k" ELSE "lxc-stop", name, "stopped", fails, m3)

StopGuard(name, kill, fails1, fails, m2) ==
    StopRun(name, kill, fails,
            IF m2.val = "frozen" /\ ~kill THEN unfreeze(name, fails1, m2) ELSE m2)

StopFrom(name, kill, fails1, fails, m1) ==
    IF m1.raised THEN m1 ELSE StopGuard(name, kill, fails1, fails, state(name, m1))

stop(name, kill, fails1, fails, m) ==
    StopFrom(name, kill, fails1, fails, _ensure_exists(name, m))

\* freeze(name, start=start_): m3 is m after the start of a stopped container
FreezeNew(name, m4) == IF m4.raised THEN m4 ELSE state(name, m4)

FreezeRun(name, fails, m3) ==
    IF m3.raised THEN m3
    ELSE FreezeNew(name, _change_state("lxc-freeze", name, "frozen", fails, m3))

FreezeGuard(name, start_, fails1, fails, m2) ==
    IF m2.val = "stopped" /\ ~start_ THEN Raise(m2, "is stopped")
    ELSE FreezeRun(name, fails,
                   IF m2.val = "stopped" THEN start(name, fails1, m2) ELSE m2)

FreezeFrom(name, start_, fails1, fails, m1) ==
    IF m1.raised THEN m1 ELSE FreezeGuard(name, start_, fails1, fails, state(name, m1))

freeze(name, start_, fails1, fails, m) ==
    FreezeFrom(name, start_, fails1, fails, _ensure_exists(name, m))

\* destroy(name, stop=stop_)
DestroyGuard(name, stop_, fails, m2) ==
    IF ~stop_ /\ m2.val # "stopped" THEN Raise(m2, "is not stopped")
    ELSE _change_state("lxc-destroy", name, None, fails, m2)

DestroyFrom(name, stop_, fails, m1) ==
    IF m1.raised THEN m1
    ELSE DestroyGuard(name, stop_, fails, IF stop_ THEN m1 ELSE state(name, m1))

destroy(name, stop_, fails, m) == DestroyFrom(name, stop_, fails, _ensure_exists(name, m))

\* attachable(name) when lxc.attachable is not cached: lxc-attach succeeds on
\* a running container
AttachableFrom(name, m1) ==
    IF m1.raised THEN m1
    ELSE [m1 EXCEPT !.ok = (m1.rt[name] = "running"),
                    !.ctx.attachable = IF m1.rt[name] = "running" THEN "True" ELSE "False"]

attachable(name, m) ==
    IF m.ctx.attachable # Unset THEN [m EXCEPT !.ok = (m.ctx.attachable = "True")]
    ELSE AttachableFrom(name, _ensure_exists(name, m))

\* the record a call starts from
Enter == [rt |-> containers, ctx |-> context, cmds |-> <<>>, raised |-> FALSE,
          error |-> "", ok |-> FALSE, val |-> None]

\* a call has returned or raised: r is the record it ended with
Leave(fn, name, flag, r) ==
    /\ args' = [fn |-> fn, name |-> name, flag |-> flag]
    /\ ret' = [fn |-> fn, raised |-> r.raised, error |-> r.error, cmds |-> r.cmds,
               ok |-> r.ok, old |-> containers]
    /\ containers' = r.rt
    /\ context' = r.ctx
    /\ pc' = "lxc"
    /\ UNCHANGED <<file, before, rootfs>>

InitLxc ==
    /\ file = ""
    /\ before = ""
    /\ args = [fn |-> "none", name |-> "", flag |-> FALSE]
    /\ ret = NoRet
    /\ pc = "idle"
    /\ containers \in [Names -> {"stopped", "running", "frozen"}]
    /\ context = EmptyContext
    /\ rootfs = NoRootfs

Start ==
    \E name \in Names, fails \in Stderr :
        \E r \in {start(name, fails, Enter)} : Leave("start", name, FALSE, r)

Stop ==
    \E name \in Names, kill \in BOOLEAN, fails1 \in Stderr, fails \in Stderr :
        \E r \in {stop(name, kill, fails1, fails, Enter)} : Leave("stop", name, kill, r)

Freeze ==
    \E name \in Names, start_ \in BOOLEAN, fails1 \in Stderr, fails \in Stderr :
        \E r \in {freeze(name, start_, fails1, fails, Enter)} : Leave("freeze", name, start_, r)

Unfreeze ==
    \E name \in Names, fails \in Stderr :
        \E r \in {unfreeze(name, fails, Enter)} : Leave("unfreeze", name, FALSE, r)

Destroy ==
    \E name \in Names, stop_ \in BOOLEAN, fails \in Stderr :
        \E r \in {destroy(name, stop_, fails, Enter)} : Leave("destroy", name, stop_, r)

Attachable ==
    \E name \in Names :
        \E r \in {attachable(name, Enter)} : Leave("attachable", name, FALSE, r)

\* the agent is invoked anew: __context__ starts empty
NewInvocation ==
    /\ context # EmptyContext
    /\ context' = EmptyContext
    /\ args' = [fn |-> "none", name |-> "", flag |-> FALSE]
    /\ ret' = NoRet
    /\ pc' = "idle"
    /\ UNCHANGED <<file, before, containers, rootfs>>

NextLxc == Start \/ Stop \/ Freeze \/ Unfreeze \/ Destroy \/ Attachable \/ NewInvocation

SpecLxc == InitLxc /\ [][NextLxc]_vars

\* the call made last was one the guards are for: the runtime state the
\* container was in is the one the function refuses
Guarded ==
    /\ pc = "lxc"
    /\ \/ args.fn = "destroy" /\ ~args.flag /\ ret.old[args.name] \in {"running", "frozen"}
       \/ args.fn = "start" /\ ret.old[args.name] = "frozen"
       \/ args.fn = "freeze" /\ ~args.flag /\ ret.old[args.name] = "stopped"
       \/ args.fn = "unfreeze" /\ ret.old[args.name] = "stopped"

\* C19: destroy without stop on a container that is not stopped, start on a
\* frozen one, freeze without start on a stopped one and unfreeze on a
\* stopped one raise, issue no state-changing command and leave the runtime
\* state of the containers as it was
C19_Guards ==
    Guarded =>
        /\ ret.raised
        /\ ret.cmds = <<>>
        /\ containers = ret.old

\* C20: attachable(name) on an existing container tells whether that
\* container can be attached to, whatever was asked before in the invocation
C20_OwnAnswer ==
    (pc = "lxc" /\ args.fn = "attachable" /\ ret.old[args.name] # "absent") =>
        /\ ~ret.raised
        /\ ret.ok = (ret.old[args.name] = "running")

\* what state(name) has to return: the runtime state, None for a container
\* that does not exist
Actual(name) == IF containers[name] = "absent" THEN None ELSE containers[name]

Lifecycle == {"start", "stop", "freeze", "unfreeze", "destroy"}

\* C24: after a lifecycle operation has returned or raised, the next
\* state(name) returns the runtime state of the container and not a value
\* cached before the operation, also when the lxc command took effect and
\* wrote to stderr
C24_StateCoherent ==
    (pc = "lxc" /\ args.fn \in Lifecycle) =>
        \A n \in Names : state(n, Enter).val = Actual(n)

(***************************************************************************)
(* reconfigure and apply_network_profile: the synthesizer's entries handed *)
(* to edit_conf, as a list of one-key dicts or as keyword arguments        *)
(***************************************************************************)
\* network_params of apply_network_profile: every param of the list is
\* update()d into one dict
RECURSIVE NetworkParams(_, _)
NetworkParams(entries, d) ==
    IF Len(entries) = 0 THEN d
    ELSE NetworkParams(Tail(entries), set(d, entries[1].key, entries[1].value))

\* the call has ended: synth is what the synthesizer returned, r what
\* edit_conf did
Edited(synth, r) ==
    [raised |-> r.raised, edited |-> TRUE, synth |-> synth, file |-> r.file]

NotEdited(raised, synth, text) ==
    [raised |-> raised, edited |-> FALSE, synth |-> synth, file |-> text]

\* apply_network_profile from "if network_params" on
ApplyEdit(text, synth, network_params, store, macs) ==
    IF network_params = <<>> THEN NotEdited(FALSE, synth, text)
    ELSE Edited(synth, edit_conf(text, "commented", FALSE, <<>>, network_params, store, macs))

\* apply_network_profile from the loop over _network_conf(...) on
ApplyFrom(text, netv, store, macs) ==
    IF netv.err THEN NotEdited(TRUE, <<>>, text)
    ELSE ApplyEdit(text, netv.entries, NetworkParams(netv.entries, <<>>), store, macs)

\* apply_network_profile(name, network_profile, nic_opts) on a container
\* whose config file holds text
apply_network_profile(text, nic, nic_opts, store, macs1, macs2) ==
    ApplyFrom(text, _network_conf(<<>>, nic, nic_opts, None, None, store, macs1), store, macs2)

\* reconfigure from "if new_cfg" on: new_cfg is what _config_list returned
ReconfigureFrom(text, new_cfg, store, macs) ==
    IF new_cfg.err THEN NotEdited(TRUE, <<>>, text)
    ELSE IF new_cfg.entries = <<>> THEN NotEdited(FALSE, <<>>, text)
    ELSE Edited(new_cfg.entries,
                edit_conf(text, "commented", FALSE, AsKws(new_cfg.entries), <<>>, store, macs))

\* reconfigure(name, network_profile=, nic_opts=) as far as the config file
\* goes, on a container whose config file holds text
reconfigure(text, nic, nic_opts, store, macs1, macs2) ==
    ReconfigureFrom(text,
                    _network_conf(read_conf(text, "commented").list, nic, nic_opts,
                                  None, None, store, macs1),
                    store, macs2)

\* the config file of the container: none, or the block of one interface
ProfileFiles == {write_conf(o) : o \in AgainOld}

InitProfile ==
    /\ file \in ProfileFiles
    /\ before = file
    /\ \E fn \in {"reconfigure", "apply_network_profile"}, p \in Profiles,
          nic_opts \in NicOptsChoices :
        args = [fn |-> fn, network_profile |-> Named(ProfName), nic_opts |-> nic_opts,
                store |-> <<<<ProfName, p>>>>]
    /\ ret = NoRet
    /\ pc = "call"
    /\ containers = NoContainers
    /\ context = NoContext
    /\ rootfs = NoRootfs

Reconfigure ==
    /\ pc = "call"
    /\ args.fn = "reconfigure"
    /\ \E macs \in GenRuns :
        \E r \in {reconfigure(file, args.network_profile, args.nic_opts, args.store,
                              macs, GenAgain)} :
            /\ ret' = [fn |-> "reconfigure", raised |-> r.raised, edited |-> r.edited,
                       synth |-> r.synth]
            /\ file' = r.file
    /\ pc' = "applied"
    /\ UNCHANGED <<before, args, containers, context, rootfs>>

ApplyNetworkProfile ==
    /\ pc = "call"
    /\ args.fn = "apply_network_profile"
    /\ \E macs \in GenRuns :
        \E r \in {apply_network_profile(file, args.network_profile, args.nic_opts,
                                        args.store, macs, GenAgain)} :
            /\ ret' = [fn |-> "apply_network_profile", raised |-> r.raised,
                       edited |-> r.edited, synth |-> r.synth]
            /\ file' = r.file
    /\ pc' = "applied"
    /\ UNCHANGED <<before, args, containers, context, rootfs>>

NextProfile == Reconfigure \/ ApplyNetworkProfile

SpecProfile == InitProfile /\ [][NextProfile]_vars

\* the fields of an interface the list carries inside its block
BlockFields ==
    {"lxc.network.type", "lxc.network.link", "lxc.network.hwaddr", "lxc.network.ipv4",
     "lxc.network.ipv6"}

\* C21: after reconfigure has handed the synthesizer's list for two or more
\* interfaces to edit_conf, every interface of the list has in the file the
\* type, link, hwaddr, ipv4 and ipv6 the list holds in its block
C21_BlockValuesKept ==
    (pc = "applied" /\ args.fn = "reconfigure" /\ ret.edited
       /\ Len(BlockNames(ret.synth)) >= 2) =>
        /\ ~ret.raised
        /\ \A dev \in Range(BlockNames(ret.synth)) : \A f \in BlockFields :
            FieldOf(ReadCommented(file), dev, f) = FieldOf(ret.synth, dev, f)

\* C22: after apply_network_profile, an interface that had lxc.network.hwaddr
\* in the file, and for which neither the profile nor nic_opts gives a mac,
\* has the same lxc.network.hwaddr in the file
C22_ApplyKeepsMac ==
    (pc = "applied" /\ args.fn = "apply_network_profile") =>
        \A dev \in Range(BlockNames(ReadCommented(before))) :
            (/\ FieldOf(ReadCommented(before), dev, "lxc.network.hwaddr") # None
             /\ NoMacGiven(dev)) =>
                FieldOf(ReadCommented(file), dev, "lxc.network.hwaddr")
                    = FieldOf(ReadCommented(before), dev, "lxc.network.hwaddr")

\* C23: after apply_network_profile with a profile of two or more
\* interfaces, the file has for every interface of the profile a block with
\* its name and the type, link, hwaddr, ipv4 and ipv6 synthesized for it
C23_BlockPerInterface ==
    (pc = "applied" /\ args.fn = "apply_network_profile" /\ Len(GivenProfile) >= 2) =>
        /\ ~ret.raised
        /\ \A dev \in Range(keys(GivenProfile)) :
            /\ dev \in Range(BlockNames(ReadCommented(file)))
            /\ \A f \in BlockFields :
                FieldOf(ReadCommented(file), dev, f) = FieldOf(ret.synth, dev, f)

(***************************************************************************)
(* _run: a command is run in a container, by lxc-attach when the container *)
(* can be attached to and in a chroot of its rootfs otherwise, and the     *)
(* state the container was in is restored afterwards.                      *)
(***************************************************************************)
\* the runtime states of a container that exists
States == {"stopped", "running", "frozen"}

\* the outcome of the body of the try is kept while the finally clause runs
Reraise(body, m5) ==
    IF m5.raised \/ ~body.raised THEN m5 ELSE Raise(m5, body.error)

\* the finally clause from "if preserve_state" on: m4 is m after state(name)
Restore(name, orig_state, preserve_state, m4) ==
    IF preserve_state /\ orig_state = "stopped" /\ m4.val # "stopped"
    THEN stop(name, FALSE, "no", "no", m4)
    ELSE IF preserve_state /\ orig_state = "frozen" /\ m4.val # "frozen"
    THEN freeze(name, TRUE, "no", "no", m4)
    ELSE m4

\* the finally clause: m3 is m when the body of the try has ended
RunFinally(name, orig_state, preserve_state, m3) ==
    Reraise(m3, Restore(name, orig_state, preserve_state,
                        state(name, [m3 EXCEPT !.raised = FALSE])))

\* container_resource.run or cmd.run_chroot: the command leaves the container
\* in the runtime state after, and returns or raises
RunCommand(name, after, raises, m2) ==
    IF m2.raised THEN m2
    ELSE IF raises THEN Raise([m2 EXCEPT !.rt[name] = after], "command failed")
    ELSE [m2 EXCEPT !.rt[name] = after]

\* _run from "try" on: m1 is m after state(name)
RunFrom(name, preserve_state, after, raises, m1) ==
    RunFinally(name, m1.val, preserve_state,
               RunCommand(name, after, raises, attachable(name, m1)))

_run(name, preserve_state, after, raises, m) ==
    RunFrom(name, preserve_state, after, raises, state(name, m))

Run ==
    \E name \in Names, preserve_state \in BOOLEAN, after \in States, raises \in BOOLEAN :
        \E r \in {_run(name, preserve_state, after, raises, Enter)} :
            Leave("_run", name, preserve_state, r)

NextRun == Run \/ NewInvocation

SpecRun == InitLxc /\ [][NextRun]_vars

\* C25: when _run with preserve_state=True ends, by a return or by an
\* exception, a container that was stopped before the call is stopped and a
\* container that was frozen before the call is frozen
C25_StatePreserved ==
    (pc = "lxc" /\ args.fn = "_run" /\ args.flag /\ ret.old[args.name] \in {"stopped", "frozen"}) =>
        containers[args.name] = ret.old[args.name]

(***************************************************************************)
(* bootstrap: the container is started, a minion is installed in it or its *)
(* configuration is copied to it, and the seed marker is written.          *)
(***************************************************************************)
\* the dict _change_state returns
ChangeDict(result, old, new) ==
    "{'result': " \o (IF result THEN "True" ELSE "False") \o
    ", 'state': {'old': '" \o old \o "', 'new': '" \o new \o "'}}"

\* "return start(name)", "return unfreeze(name)": m3 is m after that call
EnsureRunningResult(pre, m3) ==
    IF m3.raised THEN m3 ELSE [m3 EXCEPT !.val = ChangeDict(m3.ok, pre, m3.val)]

\* _ensure_running from "if pre == 'running'" on: m2 is m after state(name)
EnsureRunningGuard(name, no_start, fails, m2) ==
    IF m2.val = "running" THEN EnsureRunningResult(m2.val, start(name, fails, m2))
    ELSE IF m2.val = "stopped"
    THEN IF no_start THEN Raise(m2, "is not running")
         ELSE EnsureRunningResult(m2.val, start(name, fails, m2))
    ELSE IF m2.val = "frozen"
    THEN IF no_start THEN Raise(m2, "is not running")
         ELSE EnsureRunningResult(m2.val, unfreeze(name, fails, m2))
    ELSE [m2 EXCEPT !.val = None]

EnsureRunningFrom(name, no_start, fails, m1) ==
    IF m1.raised THEN m1 ELSE EnsureRunningGuard(name, no_start, fails, state(name, m1))

_ensure_running(name, no_start, fails, m) ==
    EnsureRunningFrom(name, no_start, fails, _ensure_exists(name, m))

\* run(name, cmd) with a command that leaves the state of the container alone
RunQuiet(name, m) ==
    IF m.raised THEN m ELSE _run(name, TRUE, m.rt[name], FALSE, m)

\* what bootstrap ends with: ok is the value it returns, marked whether it
\* has written the seed marker
Boot(m, ok, marked) == [m |-> [m EXCEPT !.ok = ok], marked |-> marked]

\* bootstrap from "if ret" on: m5 is m after stop(name) or freeze(name)
BootMark(name, ret_, m5) ==
    IF m5.raised THEN Boot(m5, FALSE, FALSE)
    ELSE IF ret_ THEN Boot([RunQuiet(name, m5) EXCEPT !.val = m5.val], TRUE, ~RunQuiet(name, m5).raised)
    ELSE Boot(m5, FALSE, FALSE)

\* bootstrap from "if orig_state == 'stopped'" on: m4 is m after the install
BootRestore(name, orig_state, ret_, m4) ==
    IF m4.raised THEN Boot(m4, FALSE, FALSE)
    ELSE BootMark(name, ret_,
            [(IF orig_state = "stopped" THEN stop(name, FALSE, "no", "no", m4)
              ELSE IF orig_state = "frozen" THEN freeze(name, FALSE, "no", "no", m4)
              ELSE m4) EXCEPT !.val = orig_state])

\* bootstrap from "if seeded and not unconditional_install" on.  install: what
\* the commands run in the container come to, "installed", "failed", or
\* "tmpdir" when the directory of the bootstrap script cannot be made
BootInstall(name, seeded, unconditional_install, install, m1) ==
    IF seeded /\ ~unconditional_install THEN Boot(m1, TRUE, FALSE)
    ELSE IF install = "tmpdir" THEN Boot([RunQuiet(name, m1) EXCEPT !.val = m1.val], FALSE, FALSE)
    ELSE BootRestore(name, m1.val, install = "installed",
                     [RunQuiet(name, m1) EXCEPT !.val = m1.val])

\* bootstrap from "if not orig_state" on: m1 is m after _ensure_running(name)
BootFrom(name, seeded, unconditional_install, install, m1) ==
    IF m1.raised THEN Boot(m1, FALSE, FALSE)
    ELSE IF m1.val = None THEN Boot(m1, FALSE, FALSE)
    ELSE BootInstall(name, seeded, unconditional_install, install, m1)

bootstrap(name, seeded, unconditional_install, install, fails, m) ==
    BootFrom(name, seeded, unconditional_install, install,
             _ensure_running(name, FALSE, fails, m))

Installs == {"installed", "failed", "tmpdir"}

Bootstrap ==
    \E name \in Names, seeded \in BOOLEAN, unconditional_install \in BOOLEAN,
       install \in Installs, fails \in Stderr :
        \E r \in {bootstrap(name, seeded, unconditional_install, install, fails, Enter)} :
            /\ args' = [fn |-> "bootstrap", name |-> name, flag |-> unconditional_install]
            /\ ret' = [fn |-> "bootstrap", raised |-> r.m.raised, error |-> r.m.error,
                       cmds |-> r.m.cmds, ok |-> r.m.ok, old |-> containers,
                       orig_state |-> r.m.val, marked |-> r.marked]
            /\ containers' = r.m.rt
            /\ context' = r.m.ctx
            /\ pc' = "lxc"
            /\ UNCHANGED <<file, before, rootfs>>

NextBoot == Bootstrap \/ NewInvocation

SpecBoot == InitLxc /\ [][NextBoot]_vars

\* C26: when bootstrap has seeded a container that was stopped or frozen,
\* the value _ensure_running returned is the state the container was in
\* before it was started, and the container is in that state again
C26_OriginalStateRestored ==
    (pc = "lxc" /\ args.fn = "bootstrap" /\ ~ret.raised /\ ret.marked
        /\ ret.old[args.name] \in {"stopped", "frozen"}) =>
        /\ ret.orig_state = ret.old[args.name]
        /\ containers[args.name] = ret.old[args.name]

(***************************************************************************)
(* init on a container that exists, called with seed=False, start=True and *)
(* no dnsservers:                                                          *)
(* the container is restarted when its configuration was rewritten, then   *)
(* the passwords are set unless a marker in the container tells that they  *)
(* were.  A call is computed on a record w: m the record of the lifecycle  *)
(* calls, fs the files of the containers, setpw the users set_password was *)
(* called for, result what ret.get('result', True) gives.  The exit status *)
(* of a command is written as Python prints it, "0" or "1".                *)
(***************************************************************************)
PassMarker == "/.lxc.initial_pass"

\* the paths init looks for before it sets the passwords
PassMarkers(name) == <<PassMarker, "/lxc.initial_pass", "/.lxc." \o name \o ".initial_pass">>

SeedMarkers == <<"/.lxc.initial_seed", "/lxc.initial_seed">>

\* _run: attachable(name) after state(name)
Attached(name, m) == attachable(name, state(name, m)).ok

\* the command of _run is carried out: in the chroot of the rootfs, or by
\* lxc-attach, which needs a running container
Ran(name, m) == ~Attached(name, m) \/ m.rt[name] = "running"

\* "return ret[output]" of _run with output='retcode': container_resource.run
\* gives a dict with the exit status, of lxc-attach when the container does
\* not run; cmd.run_chroot, which is made to run cmd.run, gives the output of
\* the command, a str
RetcodeValue(code, attached, running, m3) ==
    IF m3.raised THEN m3
    ELSE IF ~attached THEN Raise(m3, "TypeError")
    ELSE [m3 EXCEPT !.val = IF running THEN code ELSE "1"]

\* retcode(name, cmd): code is the exit status of cmd in the container
retcode(name, code, m) ==
    IF m.raised THEN m
    ELSE RetcodeValue(code, Attached(name, m), m.rt[name] = "running", RunQuiet(name, m))

\* test -e path
TestE(path, files) == IF path \in files THEN "0" ELSE "1"

\* any(retcode(name, 'test -e x') == 0 for x in gids): ok is its value, r is m
\* after the retcode of the first of gids
RECURSIVE AnyMarker(_, _, _, _)
AnyStep(name, gids, files, r) ==
    IF r.raised THEN r
    ELSE IF r.val = "0" THEN [r EXCEPT !.ok = TRUE]
    ELSE AnyMarker(name, Tail(gids), files, r)

AnyMarker(name, gids, files, m) ==
    IF m.raised THEN m
    ELSE IF Len(gids) = 0 THEN [m EXCEPT !.ok = FALSE]
    ELSE AnyStep(name, gids, files, retcode(name, TestE(gids[1], files), m))

\* init: one turn of "for user in users", r is m after retcode of chpasswd
\* in set_password; a CommandExecutionError is caught, a TypeError is not
PasswordSet(user, w, r) ==
    [w EXCEPT !.m = r,
              !.setpw = Append(@, user),
              !.result = IF ~r.raised /\ r.val # "0" /\ user = "root" THEN FALSE ELSE @]

RECURSIVE SetPasswords(_, _, _, _)
SetPasswords(name, users, chpasswd, w) ==
    IF w.m.raised \/ Len(users) = 0 THEN w
    ELSE SetPasswords(name, Tail(users), chpasswd,
                      PasswordSet(users[1], w, retcode(name, chpasswd, w.m)))

\* init from "changes.append({'password': ...})" on: r is m after retcode of
\* "touch gid; test -e gid", touch whether the file can be made, ran whether
\* the command was carried out
MarkerSet(name, touch, ran, w, r) ==
    [w EXCEPT !.m = r,
              !.fs[name] = IF touch /\ ran THEN @ \cup {PassMarker} ELSE @,
              !.result = IF r.raised THEN @ ELSE r.val = "0"]

PassMark(name, touch, w) ==
    IF w.m.raised \/ ~w.result THEN w
    ELSE MarkerSet(name, touch, Ran(name, w.m), w,
                   retcode(name, IF touch THEN "0" ELSE "1", w.m))

\* init from "for default_user in ['ubuntu']" on: r is m after retcode of
\* "id ubuntu", run when ubuntu is not in users
WithDefault(users, r) ==
    IF ~r.raised /\ r.val = "0" THEN Append(users, "ubuntu") ELSE users

PassUsers(name, users, id_ubuntu, chpasswd, touch, w) ==
    IF \E i \in 1..Len(users) : users[i] = "ubuntu"
    THEN PassMark(name, touch, SetPasswords(name, users, chpasswd, w))
    ELSE PassMark(name, touch,
            SetPasswords(name, WithDefault(users, retcode(name, id_ubuntu, w.m)), chpasswd,
                         [w EXCEPT !.m = retcode(name, id_ubuntu, w.m)]))

\* init from "if not any(...)" on: r is m after the test of the markers
PassGuard(name, users, id_ubuntu, chpasswd, touch, w, r) ==
    IF r.raised \/ r.ok THEN [w EXCEPT !.m = r]
    ELSE PassUsers(name, users, id_ubuntu, chpasswd, touch, [w EXCEPT !.m = r])

\* init from "if ret.get('result', True) and password" on
InitPassword(name, password, users, id_ubuntu, chpasswd, touch, w) ==
    IF ~(w.result /\ Truthy(password)) THEN w
    ELSE PassGuard(name, users, id_ubuntu, chpasswd, touch, w,
                   AnyMarker(name, PassMarkers(name), w.fs[name], w.m))

\* "state_post = state(name)": r is m after the test of the seed markers
InitPost(name, r) == IF r.raised THEN r ELSE state(name, r)

\* init from the test of the seed markers on
InitSeed(name, w) ==
    [w EXCEPT !.m = InitPost(name, AnyMarker(name, SeedMarkers, w.fs[name], w.m))]

\* "return ret" in the except clauses of stop(name) and start(name)
Unable(w, r) == [w EXCEPT !.m = [r EXCEPT !.raised = FALSE], !.comment = "Unable to stop container"]

\* init from "if not does_exist or ..." on: r is m after state(name)
InitStarted(name, password, users, id_ubuntu, chpasswd, touch, w, r) ==
    IF r.raised THEN Unable(w, r)
    ELSE InitSeed(name, InitPassword(name, password, users, id_ubuntu, chpasswd, touch,
                                     [w EXCEPT !.m = r]))

InitStart(name, password, users, id_ubuntu, chpasswd, touch, fails, w, r) ==
    InitStarted(name, password, users, id_ubuntu, chpasswd, touch, w,
                IF r.val # "running" THEN start(name, fails, r) ELSE r)

\* init from "if to_reboot" on: r is m after stop(name)
InitReboot(name, password, users, id_ubuntu, chpasswd, touch, fails, w, r) ==
    IF r.raised THEN Unable(w, r)
    ELSE InitStart(name, password, users, id_ubuntu, chpasswd, touch, fails, w, state(name, r))

\* users with the users passwords are always set for
WithRoot(users) ==
    IF \E i \in 1..Len(users) : users[i] = "root" THEN users ELSE Append(users, "root")

\* init(name, password=password, users=users, seed=False), from "state_pre =
\* state(name)" on: to_reboot whether the configuration file was rewritten
\* with another content
init(name, password, users, to_reboot, id_ubuntu, chpasswd, touch, fails, files, m) ==
    InitReboot(name, password, WithRoot(users), id_ubuntu, chpasswd, touch, fails,
               [m |-> m, fs |-> files, setpw |-> <<>>, result |-> TRUE, comment |-> ""],
               IF to_reboot THEN stop(name, FALSE, "no", fails, exists(name, state(name, m)))
               ELSE exists(name, state(name, m)))

ExitStatus == {"0", "1"}

UserLists == {<<>>, <<"ubuntu">>}

InitMarkers ==
    /\ file = ""
    /\ before = ""
    /\ args = [fn |-> "none", name |-> "", flag |-> FALSE]
    /\ ret = NoRet
    /\ pc = "idle"
    /\ containers \in [Names -> States]
    /\ context = EmptyContext
    /\ rootfs = [n \in Names |-> {}]

InitContainer ==
    \E name \in Names, password \in {None, "secret"}, users \in UserLists,
       to_reboot \in BOOLEAN, id_ubuntu \in ExitStatus, chpasswd \in ExitStatus,
       touch \in BOOLEAN, fails \in Stderr :
        \E w \in {init(name, password, users, to_reboot, id_ubuntu, chpasswd, touch,
                        fails, rootfs, Enter)} :
            /\ args' = [fn |-> "init", name |-> name, flag |-> Truthy(password)]
            /\ ret' = [fn |-> "init", raised |-> w.m.raised, error |-> w.m.error,
                       cmds |-> w.m.cmds, ok |-> w.result, old |-> containers,
                       marked |-> rootfs[name], setpw |-> w.setpw]
            /\ containers' = w.m.rt
            /\ context' = w.m.ctx
            /\ rootfs' = w.fs
            /\ pc' = "lxc"
            /\ UNCHANGED <<file, before>>

\* attachable(name), asked on its own in the same invocation
AttachableAsked ==
    \E name \in Names :
        \E r \in {attachable(name, Enter)} :
            /\ args' = [fn |-> "attachable", name |-> name, flag |-> FALSE]
            /\ ret' = [fn |-> "attachable", raised |-> r.raised, error |-> r.error,
                       cmds |-> r.cmds, ok |-> r.ok, old |-> containers]
            /\ containers' = r.rt
            /\ context' = r.ctx
            /\ pc' = "lxc"
            /\ UNCHANGED <<file, before, rootfs>>

NextInit == InitContainer \/ AttachableAsked \/ NewInvocation

SpecInit == InitMarkers /\ [][NextInit]_vars

\* C27: an init call on a container in which an earlier init has set the
\* passwords and made the marker /.lxc.initial_pass calls set_password for
\* no user
C27_PasswordsOnce ==
    (pc = "lxc" /\ args.fn = "init" /\ PassMarker \in ret.marked) => ret.setpw = <<>>

(***************************************************************************)
(* _rand_cpu_str: the cpus of lxc.cgroup.cpuset.cpus, drawn at random.     *)
(* The loop is taken one turn at a time: pc is "call" before the function  *)
(* starts, "while" at the head of the loop, "returned" after the return.   *)
(***************************************************************************)
MaxCpu == 5

MaxAvail == 4

\* str(n) of a number of one digit
str(n) == SubSeq(Digits, n + 1, n + 1)

\* sorted(to_set) of a set of such strings, from the digit n on
RECURSIVE SortedFrom(_, _)
SortedFrom(to_set, n) ==
    IF n > 9 THEN <<>>
    ELSE (IF str(n) \in to_set THEN <<str(n)>> ELSE <<>>) \o SortedFrom(to_set, n + 1)

InitCpu ==
    /\ file = ""
    /\ before = ""
    /\ args \in [cpu : 1..MaxCpu, avail : 1..MaxAvail]
    /\ ret = NoRet
    /\ pc = "call"
    /\ containers = NoContainers
    /\ context = NoContext
    /\ rootfs = NoRootfs

\* _rand_cpu_str up to the loop
RandCpuStr ==
    /\ pc = "call"
    /\ IF args.cpu < args.avail
       THEN /\ ret' = [to_set |-> {}, odd |-> FALSE, value |-> "0-" \o str(args.avail)]
            /\ pc' = "returned"
       ELSE /\ ret' = [to_set |-> {}, odd |-> FALSE, value |-> None]
            /\ pc' = "while"
    /\ UNCHANGED <<file, before, args, containers, context, rootfs>>

\* one turn of the loop, random.randint(0, avail - 1) gives choice: choice is
\* an int and to_set holds str, so "choice not in to_set" is true.  odd tells
\* whether the number of turns taken so far is odd
Choose(choice) ==
    /\ pc = "while"
    /\ Cardinality(ret.to_set) < args.cpu
    /\ choice \in 0..(args.avail - 1)
    /\ ret' = [ret EXCEPT !.to_set = @ \cup {str(choice)}, !.odd = ~@]
    /\ UNCHANGED <<file, before, args, pc, containers, context, rootfs>>

\* the loop ends
RandReturn ==
    /\ pc = "while"
    /\ Cardinality(ret.to_set) >= args.cpu
    /\ ret' = [ret EXCEPT !.value = join(",", SortedFrom(ret.to_set, 0))]
    /\ pc' = "returned"
    /\ UNCHANGED <<file, before, args, containers, context, rootfs>>

NextCpu == RandCpuStr \/ (\E choice \in 0..(MaxAvail - 1) : Choose(choice)) \/ RandReturn

SpecCpu == InitCpu /\ [][NextCpu]_vars

\* the function runs on, and random.randint gives every number again and
\* again
SpecCpuFair ==
    /\ SpecCpu
    /\ WF_vars(RandCpuStr)
    /\ WF_vars(RandReturn)
    /\ \A choice \in 0..(MaxAvail - 1) : SF_vars(Choose(choice))

\* C28: _rand_cpu_str(cpu) returns, for every cpu >= 1 and every number
\* avail >= 1 of processors, cpu > avail included
C28_Terminates == <>(pc = "returned")

(***************************************************************************)
(* update_lxc_conf: options are set and unset in the configuration file.   *)
(* A comment or blank line is kept as the list [line, ''], every other     *)
(* line as the tuple (key, value).                                         *)
(***************************************************************************)
\* text.splitlines()
Chomp(line) ==
    IF Len(line) > 0 /\ SubSeq(line, Len(line), Len(line)) = "\n"
    THEN SubSeq(line, 1, Len(line) - 1) ELSE line

splitlines(text) == [i \in 1..Len(readlines(text)) |-> Chomp(readlines(text)[i])]

ConfList(line) == [list |-> TRUE, key |-> line, val |-> ""]

ConfTuple(key, val) == [list |-> FALSE, key |-> key, val |-> val]

\* x in lines
Listed(x, lines) == \E i \in 1..Len(lines) : lines[i] = x

\* update_lxc_conf, "for line in orig_config.splitlines()", from the else on:
\* parts is line.split('=')
ConfRow(parts) == ConfTuple(strip(parts[1]), strip(join("=", Tail(parts))))

RECURSIVE ConfRows(_, _)
ConfRows(rows, lines) ==
    IF Len(rows) = 0 THEN lines
    ELSE IF startswith(rows[1], "#") \/ strip(rows[1]) = ""
    THEN ConfRows(Tail(rows), Append(lines, ConfList(rows[1])))
    ELSE IF Listed(ConfRow(split(rows[1], "=")), lines)
    THEN ConfRows(Tail(rows), lines)
    ELSE ConfRows(Tail(rows), Append(lines, ConfRow(split(rows[1], "="))))

\* "for idx, line in enumerate(lines[:])" from the index idx on: copy is
\* lines[:], the loop is left at the first line whose value was another
RECURSIVE ConfEdit(_, _, _, _, _)
ConfEdit(key, item, copy, lines, idx) ==
    IF idx > Len(copy) THEN lines
    ELSE IF copy[idx].key # key THEN ConfEdit(key, item, copy, lines, idx + 1)
    ELSE IF strip(copy[idx].val) # strip(item)
    THEN [lines EXCEPT ![idx] = ConfTuple(key, item)]
    ELSE ConfEdit(key, item, copy, [lines EXCEPT ![idx] = ConfTuple(key, item)], idx + 1)

\* one turn of "for key, item in filtered_lxc_conf"
ConfSet(key, item, lines) ==
    IF \E i \in 1..Len(lines) : lines[i].key = key
    THEN ConfEdit(key, item, lines, lines, 1)
    ELSE IF Listed(ConfTuple(key, item), lines) THEN lines
    ELSE Append(lines, ConfTuple(key, item))

RECURSIVE ConfSetAll(_, _)
ConfSetAll(lxc_conf, lines) ==
    IF Len(lxc_conf) = 0 THEN lines
    ELSE ConfSetAll(Tail(lxc_conf),
                    ConfSet(strip(lxc_conf[1][1]), strip(lxc_conf[1][2]), lines))

\* "for opt in lxc_conf_unset" for one line
RECURSIVE UnsetLine(_, _, _)
UnsetLine(line, opts, dest) ==
    IF Len(opts) = 0 THEN dest
    ELSE IF ~startswith(line.key, opts[1]) /\ ~Listed(line, dest)
    THEN UnsetLine(line, Tail(opts), Append(dest, line))
    ELSE UnsetLine(line, Tail(opts), dest)

RECURSIVE UnsetLines(_, _, _)
UnsetLines(lines, opts, dest) ==
    IF Len(lines) = 0 THEN dest
    ELSE UnsetLines(Tail(lines), opts, UnsetLine(lines[1], opts, dest))

\* "filter unset"
ConfUnset(lines, lxc_conf_unset) ==
    IF Len(lxc_conf_unset) = 0 THEN lines ELSE UnsetLines(lines, lxc_conf_unset, <<>>)

RECURSIVE ConfText(_)
ConfText(dest) ==
    IF Len(dest) = 0 THEN ""
    ELSE (IF dest[1].val = "" THEN dest[1].key \o "\n"
          ELSE strip(dest[1].key) \o " = " \o strip(dest[1].val) \o "\n")
         \o ConfText(Tail(dest))

\* the content update_lxc_conf leaves in the file: it is written when conf is
\* not orig_config, and then it is conf
update_lxc_conf(orig_config, lxc_conf, lxc_conf_unset) ==
    ConfText(ConfUnset(ConfSetAll(lxc_conf, ConfRows(splitlines(orig_config), <<>>)),
                       lxc_conf_unset))

MaxConf == 3

ConfLines == {"# lxc.utsname = a\n", "\n", "lxc.utsname = a\n", "lxc.network.type = veth\n",
              "lxc.network.link = br0\n"}

RECURSIVE ConfFiles(_)
ConfFiles(n) ==
    IF n = 0 THEN {""} ELSE ConfFiles(n - 1) \cup {l \o t : l \in ConfLines, t \in ConfFiles(n - 1)}

ConfOptions == {<<>>, <<<<"lxc.utsname", "b">>>>}

ConfUnsets == {<<>>, <<"lxc.network">>, <<"lxc.utsname">>, <<"lxc.network", "lxc.utsname">>}

InitConf ==
    /\ file \in ConfFiles(MaxConf)
    /\ before = file
    /\ args \in [lxc_conf : ConfOptions, lxc_conf_unset : ConfUnsets]
    /\ ret = NoRet
    /\ pc = "call"
    /\ containers = NoContainers
    /\ context = NoContext
    /\ rootfs = NoRootfs

UpdateLxcConf ==
    /\ pc = "call"
    /\ file' = update_lxc_conf(file, args.lxc_conf, args.lxc_conf_unset)
    /\ ret' = [fn |-> "update_lxc_conf"]
    /\ pc' = "updated"
    /\ UNCHANGED <<before, args, containers, context, rootfs>>

NextConf == UpdateLxcConf

SpecConf == InitConf /\ [][NextConf]_vars

\* a line of the file is one of an option lxc_conf_unset lists
Unsetting(line) ==
    /\ ~startswith(line, "#")
    /\ strip(line) # ""
    /\ \E i \in 1..Len(args.lxc_conf_unset) :
            startswith(strip(split(line, "=")[1]), args.lxc_conf_unset[i])

\* how many times a line is in a text
Times(line, text) == Cardinality({i \in 1..Len(splitlines(text)) : splitlines(text)[i] = line})

\* C29: after update_lxc_conf with no option to set, the file holds no line
\* of an option lxc_conf_unset lists, and every other line of the file,
\* comment, blank or repeated, as many times as before
C29_UnsetRemoved ==
    (pc = "updated" /\ args.lxc_conf = <<>>) =>
        \A line \in Range(splitlines(before)) \cup Range(splitlines(file)) :
            Times(line, file) = IF Unsetting(line) THEN 0 ELSE Times(line, before)

(***************************************************************************)
(* _LXCConfig(name=...): the configuration file is loaded into data, the   *)
(* defaults and the network configuration are put in, and write() renders  *)
(* data to the file again.                                                 *)
(***************************************************************************)
\* the last index of the first run of characters of s that are no whitespace
RECURSIVE TokenEnd(_, _)
TokenEnd(s, i) ==
    IF i > Len(s) \/ IsSpace(SubSeq(s, i, i)) THEN i - 1 ELSE TokenEnd(s, i + 1)

\* the index of the first character at or after i that is no whitespace
RECURSIVE SkipSpace(_, _)
SkipSpace(s, i) ==
    IF i > Len(s) THEN 0
    ELSE IF IsSpace(SubSeq(s, i, i)) THEN SkipSpace(s, i + 1) ELSE i

\* the last '=' of s at or before i that is not its first character
RECURSIVE LastEqual(_, _)
LastEqual(s, i) ==
    IF i < 2 THEN 0 ELSE IF SubSeq(s, i, i) = "=" THEN i ELSE LastEqual(s, i - 1)

\* where (=) of ^(\S+)(\s*)(=)(\s*)(.*) matches in s, 0 if the pattern does
\* not match: \S+ takes the whole first word n characters long when '='
\* comes after the whitespace k - 1 ends, and else the longest part of the
\* word that ends before an '='
EqualOf(s, n, k) ==
    IF k # 0 /\ SubSeq(s, k, k) = "=" THEN k ELSE LastEqual(s, n)

\* pattern.findall(s) of a stripped line, the groups 0 and -1 of its match
PatternAt(s, e) ==
    IF e = 0 THEN <<>>
    ELSE << <<rstrip(SubSeq(s, 1, e - 1)), lstrip(SubSeq(s, e + 1, Len(s)))>> >>

PatternFindall(s) ==
    IF s = "" THEN <<>>
    ELSE PatternAt(s, EqualOf(s, TokenEnd(s, 1), SkipSpace(s, TokenEnd(s, 1) + 1)))

\* non_interpretable_pattern.findall(s), ^((#.*)|(\s*))$, the group 0
NonInterpretable(s) == IF s = "" \/ startswith(s, "#") THEN << <<"", s>> >> ELSE <<>>

\* _LXCConfig.__init__, "for line in fhr.readlines()"
RECURSIVE LoadLines(_)
LoadLines(lines) ==
    IF Len(lines) = 0 THEN <<>>
    ELSE PatternFindall(strip(lines[1])) \o NonInterpretable(strip(lines[1]))
         \o LoadLines(Tail(lines))

\* _filter_data(pattern): what it leaves in data, and what it returns
Filtered(data, pattern) == SelectSeq(data, LAMBDA t : ~startswith(t[1], pattern))

Removed(data, pattern) == SelectSeq(data, LAMBDA t : startswith(t[1], pattern))

\* _get_lxc_default_data(autostart=autostart), no memory, cpuset, cpushare, cpu
DefaultData(autostart) ==
    IF autostart = "keep" THEN <<>> ELSE << <<"lxc.start.auto", "1">> >>

\* "for key, val in six.iteritems(default_data): _replace(key, val)"
RECURSIVE ReplaceAll(_, _)
ReplaceAll(default_data, data) ==
    IF Len(default_data) = 0 THEN data
    ELSE ReplaceAll(Tail(default_data),
                    Append(Filtered(data, default_data[1][1]), default_data[1]))

\* __init__ from "if net_datas" on: net_datas is what _network_conf gave
WithNet(data, net_datas) ==
    IF net_datas.err THEN [raised |-> TRUE, data |-> <<>>]
    ELSE [raised |-> FALSE,
          data |-> Filtered(Filtered(data, "lxc.network") \o
                            [i \in 1..Len(net_datas.entries) |->
                                <<net_datas.entries[i].key, net_datas.entries[i].value>>],
                            "lxc.cgroup.memory.limit_in_bytes")]

\* __init__ from "old_net = self._filter_data('lxc.network')" on
NetData(data, nic, nic_opts, store, macs) ==
    WithNet(data, _network_conf(ItemsOf(Removed(data, "lxc.network")), nic, nic_opts,
                                None, None, store, macs))

\* _LXCConfig(name=name, autostart=autostart, network_profile=nic,
\* nic_opts=nic_opts) on a file with this text
LXCConfig(text, autostart, nic, nic_opts, store, macs) ==
    NetData(ReplaceAll(DefaultData(autostart), LoadLines(readlines(text))),
            nic, nic_opts, store, macs)

MaxLoad == 2

\* no more load and write once the file has so many lines
MaxWritten == 8

LoadChoices == {"lxc.utsname = a\n", "#lxc.aa_profile=unconfined\n", "# a comment\n", "\n",
                "lxc.mount.entry=proc proc proc\n", "lxc.network.type = veth\n"}

RECURSIVE LoadFiles(_)
LoadFiles(n) ==
    IF n = 0 THEN {""} ELSE LoadFiles(n - 1) \cup {l \o t : l \in LoadChoices, t \in LoadFiles(n - 1)}

InitLoad ==
    /\ file \in LoadFiles(MaxLoad)
    /\ before = file
    /\ args \in [autostart : {None, "keep"}]
    /\ ret = NoRet
    /\ pc = "call"
    /\ containers = NoContainers
    /\ context = NoContext
    /\ rootfs = NoRootfs

\* cfg = _LXCConfig(name=name, autostart=autostart); cfg.write()
LoadAndWrite ==
    /\ pc \in {"call", "written"}
    /\ Len(readlines(file)) <= MaxWritten
    /\ \E c \in {LXCConfig(file, args.autostart, NoProfile, <<>>, <<>>, GenAgain)} :
         /\ ret' = [fn |-> "_LXCConfig", raised |-> c.raised,
                    loaded |-> Len(LoadLines(readlines(file))), again |-> pc = "written"]
         /\ file' = IF c.raised THEN file ELSE as_string(c.data)
    /\ before' = file
    /\ pc' = "written"
    /\ UNCHANGED <<args, containers, context, rootfs>>

NextLoad == LoadAndWrite

SpecLoad == InitLoad /\ [][NextLoad]_vars

\* C30: _LXCConfig loads one entry of data for every line of the file, and
\* a file that write() rendered has no more lines after it is loaded and
\* written again
C30_EntryPerLine ==
    (pc = "written" /\ ~ret.raised) =>
        /\ ret.loaded = Len(readlines(before))
        /\ ret.again => Len(readlines(file)) <= Len(readlines(before))

============================================================================
